---- MODULE Spec2Model ----
(***************************************************************************)
(* Terminology Evolution Tracker: a model of the Gradio application        *)
(* (src/app.py) and of the tracker library                                 *)
(* (src/terminology_evolution_tracker.py).                                 *)
(*                                                                         *)
(* Texts are TLA+ strings and are handled character by character           *)
(* (Len, SubSeq, \o), as the Python code handles them.  A TLA+ string      *)
(* holds ASCII only: every maximal run of non-ASCII characters of a source *)
(* text (the Chinese labels and texts, the emoji) is written "#".          *)
(*                                                                         *)
(* A JSON object is a record whose DOMAIN is the set of keys present; a    *)
(* JSON array is a sequence; a JSON null in a text field is JsonNull.      *)
(* Python dictionaries keep insertion order: the key orders are the ones   *)
(* of DEMO_DATA (TopKeys, SnapshotKeys, ShiftKeys).                        *)
(*                                                                         *)
(* The two source files are two programs that share nothing: a behaviour   *)
(* of Spec runs one of them, chosen by `program`.                          *)
(***************************************************************************)
EXTENDS Integers, Sequences, FiniteSets, TLC

VARIABLES
    program,    \* "app" (python app.py) or "lib" (the imported tracker module)
    store,      \* app.py: the module global DEMO_DATA, the dict as it is now
    tracker,    \* app.py: the global `tracker`
    req,        \* app.py: the analyze_term request being served
    ui,         \* app.py: the api_status textbox, last initialize_tracker return
    api_input,  \* app.py: the api_input textbox, the key of the last Set Key
    lib,        \* tracker module: one TerminologyEvolutionTracker and its caller
    yx,         \* extract_year harness: the label and the year returned
    rx          \* renderer harness: the record and the outputs of its renders

vars == <<program, store, tracker, req, ui, api_input, lib, yx, rx>>

-----------------------------------------------------------------------------
(* Python str operations *)

Char(s, i) == SubSeq(s, i, i)

\* str.strip() with no argument removes leading and trailing whitespace
Whitespace == {" ", "\t", "\n", "\r", "\f"}

UpperAlpha == "ABCDEFGHIJKLMNOPQRSTUVWXYZ"
LowerAlpha == "abcdefghijklmnopqrstuvwxyz"
Digits == {"0", "1", "2", "3", "4", "5", "6", "7", "8", "9"}

SetMin(S) == CHOOSE m \in S : \A n \in S : m <= n
SetMax(S) == CHOOSE m \in S : \A n \in S : m >= n

AlphaIndex(alpha, c) ==
    IF \E i \in 1..Len(alpha) : Char(alpha, i) = c
    THEN CHOOSE i \in 1..Len(alpha) : Char(alpha, i) = c
    ELSE 0

LowerChar(c) ==
    IF AlphaIndex(UpperAlpha, c) = 0 THEN c ELSE Char(LowerAlpha, AlphaIndex(UpperAlpha, c))

UpperChar(c) ==
    IF AlphaIndex(LowerAlpha, c) = 0 THEN c ELSE Char(UpperAlpha, AlphaIndex(LowerAlpha, c))

\* str.lower(): every character mapped, the text split in halves so that the
\* evaluation depth is logarithmic in its length
RECURSIVE str_lower(_)
str_lower(s) ==
    IF Len(s) = 0 THEN ""
    ELSE IF Len(s) = 1 THEN LowerChar(s)
    ELSE str_lower(SubSeq(s, 1, Len(s) \div 2)) \o str_lower(SubSeq(s, Len(s) \div 2 + 1, Len(s)))

\* str.upper()
RECURSIVE str_upper(_)
str_upper(s) ==
    IF Len(s) = 0 THEN ""
    ELSE IF Len(s) = 1 THEN UpperChar(s)
    ELSE str_upper(SubSeq(s, 1, Len(s) \div 2)) \o str_upper(SubSeq(s, Len(s) \div 2 + 1, Len(s)))

\* str.strip()
str_strip(s) ==
    LET keep == {i \in 1..Len(s) : Char(s, i) \notin Whitespace}
    IN  IF keep = {} THEN "" ELSE SubSeq(s, SetMin(keep), SetMax(keep))

\* `sub in s`
str_contains(s, sub) ==
    \E i \in 1..(Len(s) - Len(sub) + 1) : SubSeq(s, i, i + Len(sub) - 1) = sub

\* s[:n]
str_prefix(s, n) == SubSeq(s, 1, IF Len(s) < n THEN Len(s) ELSE n)

\* sep.join(parts), the list split in halves
RECURSIVE str_join(_, _)
str_join(sep, parts) ==
    IF Len(parts) = 0 THEN ""
    ELSE IF Len(parts) = 1 THEN parts[1]
    ELSE str_join(sep, SubSeq(parts, 1, Len(parts) \div 2)) \o sep
         \o str_join(sep, SubSeq(parts, Len(parts) \div 2 + 1, Len(parts)))

\* ch * n
RECURSIVE str_repeat(_, _)
str_repeat(ch, n) ==
    IF n <= 0 THEN ""
    ELSE IF n = 1 THEN ch
    ELSE str_repeat(ch, n \div 2) \o str_repeat(ch, n - n \div 2)

\* int(text) of an optional "-" followed by decimal digits
DigitValue(c) == AlphaIndex("0123456789", c) - 1

RECURSIVE NatOfDigits(_)
NatOfDigits(s) ==
    IF Len(s) = 0 THEN 0
    ELSE 10 * NatOfDigits(SubSeq(s, 1, Len(s) - 1)) + DigitValue(Char(s, Len(s)))

py_int(s) ==
    IF Len(s) > 0 /\ Char(s, 1) = "-" THEN 0 - NatOfDigits(SubSeq(s, 2, Len(s)))
    ELSE NatOfDigits(s)

-----------------------------------------------------------------------------
(* JSON values, dict.get, json.dumps, json.loads *)

\* a JSON null held by a text field (Python None); no text of the model equals it
JsonNull == "\\null"

\* dict.get(key, default)
Get(d, key, default) == IF key \in DOMAIN d THEN d[key] ELSE default

\* str(v) as an f-string formats a text field
py_str(v) == IF v = JsonNull THEN "None" ELSE v

TopKeys ==
    << "term", "domain", "origin_period", "origin_language", "etymology",
       "etymology_zh", "snapshots", "semantic_shifts", "related_terms",
       "current_status", "future_prediction", "future_prediction_zh" >>

SnapshotKeys ==
    << "term", "period", "year_start", "year_end", "definition", "definition_zh",
       "usage_context", "frequency", "domain", "status", "example_sentence", "notes" >>

ShiftKeys ==
    << "term", "shift_type", "period_from", "period_to", "meaning_before",
       "meaning_after", "explanation", "explanation_zh", "evidence" >>

IntKeys == {"year_start", "year_end"}

\* json.dumps of a text: quotes and backslashes escaped, non-ASCII left as it is
\* (ensure_ascii=False)
JsonEscapeChar(c) ==
    IF c = "\"" THEN "\\\""
    ELSE IF c = "\\" THEN "\\\\"
    ELSE IF c = "\n" THEN "\\n"
    ELSE IF c = "\t" THEN "\\t"
    ELSE c

RECURSIVE JsonEscapeEach(_)
JsonEscapeEach(s) ==
    IF Len(s) = 0 THEN ""
    ELSE IF Len(s) = 1 THEN JsonEscapeChar(s)
    ELSE JsonEscapeEach(SubSeq(s, 1, Len(s) \div 2))
         \o JsonEscapeEach(SubSeq(s, Len(s) \div 2 + 1, Len(s)))

JsonEscape(s) ==
    IF \E i \in 1..Len(s) : JsonEscapeChar(Char(s, i)) # Char(s, i)
    THEN JsonEscapeEach(s)
    ELSE s

JsonText(v) == IF v = JsonNull THEN "null" ELSE "\"" \o JsonEscape(v) \o "\""

\* the line break and indentation json.dumps writes before an item at `level`;
\* indent < 0 stands for indent=None (one line, ", " between items)
JsonBreak(indent, level) ==
    IF indent < 0 THEN "" ELSE "\n" \o str_repeat(" ", indent * level)

JsonItemSep(indent) == IF indent < 0 THEN ", " ELSE ","

JsonWrap(open, close, items, indent, level) ==
    IF Len(items) = 0 THEN open \o close
    ELSE open \o JsonBreak(indent, level + 1)
         \o str_join(JsonItemSep(indent) \o JsonBreak(indent, level + 1), items)
         \o JsonBreak(indent, level) \o close

PresentKeys(d, keys) == SelectSeq(keys, LAMBDA k : k \in DOMAIN d)

\* a snapshot or a shift: an object of texts and integers
JsonFlatObject(d, keys, indent, level) ==
    LET present == PresentKeys(d, keys)
        item(k) == JsonText(k) \o ": " \o
                   (IF k \in IntKeys THEN ToString(d[k]) ELSE JsonText(d[k]))
    IN  JsonWrap("{", "}", [i \in 1..Len(present) |-> item(present[i])], indent, level)

JsonObjectList(l, keys, indent, level) ==
    JsonWrap("[", "]",
             [i \in 1..Len(l) |-> JsonFlatObject(l[i], keys, indent, level + 1)],
             indent, level)

JsonTextList(l, indent, level) ==
    JsonWrap("[", "]", [i \in 1..Len(l) |-> JsonText(l[i])], indent, level)

\* json.dumps(data, ensure_ascii=False, indent=indent) of an evolution record
json_dumps(data, indent) ==
    LET present == PresentKeys(data, TopKeys)
        value(k) ==
            IF k = "snapshots" THEN JsonObjectList(data[k], SnapshotKeys, indent, 1)
            ELSE IF k = "semantic_shifts" THEN JsonObjectList(data[k], ShiftKeys, indent, 1)
            ELSE IF k = "related_terms" THEN JsonTextList(data[k], indent, 1)
            ELSE JsonText(data[k])
        item(k) == JsonText(k) \o ": " \o value(k)
    IN  JsonWrap("{", "}", [i \in 1..Len(present) |-> item(present[i])], indent, 0)

-----------------------------------------------------------------------------
(* PRE-LOADED DEMO DATA *)

DEMO_buddha ==
  [ term |-> "Buddha",
    domain |-> "religion / philosophy",
    origin_period |-> "6th-5th century BCE",
    origin_language |-> "Sanskrit/Pali",
    etymology |-> "From Sanskrit 'buddha' meaning 'awakened one' or 'enlightened one', derived from the root 'budh' (to awaken, to know).",
    etymology_zh |-> "#buddha#budh#",
    snapshots |-> <<
      [ term |-> "Buddha",
        period |-> "6th-5th century BCE",
        year_start |-> -500,
        year_end |-> -400,
        definition |-> "Title given to Siddhartha Gautama, the founder of Buddhism, meaning 'the awakened one'",
        definition_zh |-> "#",
        usage_context |-> "Religious/philosophical title",
        frequency |-> "medium",
        domain |-> "Buddhism",
        status |-> "emerging",
        example_sentence |-> "The Buddha taught the Middle Way.",
        notes |-> "Originally referred specifically to Siddhartha Gautama" ],
      [ term |-> "Buddha",
        period |-> "1st-5th century CE",
        year_start |-> 100,
        year_end |-> 500,
        definition |-> "Expanded to include multiple buddhas in Mahayana tradition; any fully enlightened being",
        definition_zh |-> "#",
        usage_context |-> "Religious worship and philosophy",
        frequency |-> "high",
        domain |-> "Buddhism",
        status |-> "established",
        example_sentence |-> "Amitabha Buddha presides over the Western Pure Land.",
        notes |-> "Concept expanded with Mahayana Buddhism spread" ],
      [ term |-> "Buddha",
        period |-> "500-1500 CE",
        year_start |-> 500,
        year_end |-> 1500,
        definition |-> "Central figure of worship across Asia; statues and temples built in his honor",
        definition_zh |-> "#",
        usage_context |-> "Religious worship, art, architecture",
        frequency |-> "high",
        domain |-> "Buddhism/Culture",
        status |-> "established",
        example_sentence |-> "The giant Buddha statue was carved into the cliff.",
        notes |-> "Buddhism spreads throughout Asia" ],
      [ term |-> "Buddha",
        period |-> "1800-1950",
        year_start |-> 1800,
        year_end |-> 1950,
        definition |-> "Introduced to Western consciousness; studied academically; seen as philosopher",
        definition_zh |-> "#",
        usage_context |-> "Academic study, orientalism, philosophy",
        frequency |-> "medium",
        domain |-> "Academia/Religion",
        status |-> "evolving",
        example_sentence |-> "Western scholars began translating Buddhist texts.",
        notes |-> "Western academic interest grows" ],
      [ term |-> "Buddha",
        period |-> "1950-2000",
        year_start |-> 1950,
        year_end |-> 2000,
        definition |-> "Symbol of peace, meditation, mindfulness; enters popular culture",
        definition_zh |-> "#",
        usage_context |-> "Pop culture, meditation, wellness",
        frequency |-> "high",
        domain |-> "Culture/Wellness",
        status |-> "evolving",
        example_sentence |-> "She placed a Buddha statue in her meditation corner.",
        notes |-> "Secularization and commercialization begins" ],
      [ term |-> "Buddha",
        period |-> "2000-Present",
        year_start |-> 2000,
        year_end |-> 2024,
        definition |-> "Used in wellness industry, home decor, mindfulness apps; sometimes controversial commercialization",
        definition_zh |-> "#",
        usage_context |-> "Wellness, decor, apps, meditation",
        frequency |-> "high",
        domain |-> "Wellness/Commercial",
        status |-> "evolving",
        example_sentence |-> "The Buddha Bowl is a popular healthy meal option.",
        notes |-> "Term used in secular contexts like 'Buddha bowl', 'Buddha belly'" ]
    >>,
    semantic_shifts |-> <<
      [ term |-> "Buddha",
        shift_type |-> "broadening",
        period_from |-> "6th century BCE",
        period_to |-> "5th century CE",
        meaning_before |-> "Specific title for Siddhartha Gautama",
        meaning_after |-> "Any fully enlightened being (multiple Buddhas)",
        explanation |-> "Mahayana Buddhism expanded the concept to include countless Buddhas across time and space",
        explanation_zh |-> "#",
        evidence |-> "Amitabha Buddha, Medicine Buddha, future Maitreya Buddha" ],
      [ term |-> "Buddha",
        shift_type |-> "generalization",
        period_from |-> "1950s",
        period_to |-> "2000s",
        meaning_before |-> "Religious/spiritual figure requiring reverence",
        meaning_after |-> "Cultural symbol of peace, calm, and mindfulness",
        explanation |-> "Secularization in Western culture transformed Buddha into a lifestyle symbol",
        explanation_zh |-> "#",
        evidence |-> "Buddha statues as decor, 'Buddha bowl' food trend" ],
      [ term |-> "Buddha",
        shift_type |-> "metaphor",
        period_from |-> "1990s",
        period_to |-> "2020s",
        meaning_before |-> "Enlightened spiritual teacher",
        meaning_after |-> "Adjective meaning calm, peaceful, or wise",
        explanation |-> "Used metaphorically to describe a state of calm or wisdom",
        explanation_zh |-> "#",
        evidence |-> "'He's so Buddha about everything' (meaning calm/zen)" ]
    >>,
    related_terms |-> <<"Buddhism", "Dharma", "Sangha", "Nirvana", "Enlightenment", "Zen", "Mindfulness", "Meditation">>,
    current_status |-> "Highly active in both religious and secular contexts; experiencing tension between sacred and commercial uses",
    future_prediction |-> "Likely to continue expanding in wellness/secular contexts while maintaining religious significance; may see pushback against commercialization",
    future_prediction_zh |-> "#/#" ]

DEMO_computer ==
  [ term |-> "Computer",
    domain |-> "technology",
    origin_period |-> "1640s",
    origin_language |-> "English (from Latin 'computare')",
    etymology |-> "From Latin 'computare' meaning 'to count, sum up, reckon together'. Originally referred to a person who computes.",
    etymology_zh |-> "#computare#",
    snapshots |-> <<
      [ term |-> "Computer",
        period |-> "1640-1900",
        year_start |-> 1640,
        year_end |-> 1900,
        definition |-> "A person who performs mathematical calculations",
        definition_zh |-> "#",
        usage_context |-> "Professional occupation",
        frequency |-> "low",
        domain |-> "Mathematics/Business",
        status |-> "established",
        example_sentence |-> "The computers worked long hours calculating astronomical tables.",
        notes |-> "Originally a job title, not a machine" ],
      [ term |-> "Computer",
        period |-> "1900-1945",
        year_start |-> 1900,
        year_end |-> 1945,
        definition |-> "Both human calculators and early mechanical calculating machines",
        definition_zh |-> "#",
        usage_context |-> "Business, military, science",
        frequency |-> "medium",
        domain |-> "Technology/Military",
        status |-> "evolving",
        example_sentence |-> "The women computers at NASA calculated rocket trajectories.",
        notes |-> "Transition period - term applies to both humans and machines" ],
      [ term |-> "Computer",
        period |-> "1945-1980",
        year_start |-> 1945,
        year_end |-> 1980,
        definition |-> "Large electronic calculating machine; mainframe systems",
        definition_zh |-> "#",
        usage_context |-> "Business, government, universities",
        frequency |-> "high",
        domain |-> "Technology",
        status |-> "established",
        example_sentence |-> "The company's computer filled an entire room.",
        notes |-> "Human meaning becomes obsolete; machine meaning dominates" ],
      [ term |-> "Computer",
        period |-> "1980-2000",
        year_start |-> 1980,
        year_end |-> 2000,
        definition |-> "Personal computing device; desktop and laptop machines",
        definition_zh |-> "#",
        usage_context |-> "Home, office, school",
        frequency |-> "high",
        domain |-> "Consumer Technology",
        status |-> "established",
        example_sentence |-> "Every household should have a computer.",
        notes |-> "Personal computer revolution" ],
      [ term |-> "Computer",
        period |-> "2000-Present",
        year_start |-> 2000,
        year_end |-> 2024,
        definition |-> "Any programmable electronic device; includes smartphones, tablets, embedded systems",
        definition_zh |-> "#",
        usage_context |-> "Ubiquitous in daily life",
        frequency |-> "high",
        domain |-> "Technology/Daily Life",
        status |-> "established",
        example_sentence |-> "Your phone is a computer more powerful than what sent humans to the moon.",
        notes |-> "Term has broadened to include many device types" ]
    >>,
    semantic_shifts |-> <<
      [ term |-> "Computer",
        shift_type |-> "narrowing",
        period_from |-> "1640s",
        period_to |-> "1950s",
        meaning_before |-> "Person who computes (human calculator)",
        meaning_after |-> "Electronic calculating machine only",
        explanation |-> "As machines took over computing tasks, the human meaning became obsolete",
        explanation_zh |-> "#",
        evidence |-> "NASA 'computers' (human) replaced by electronic computers" ],
      [ term |-> "Computer",
        shift_type |-> "broadening",
        period_from |-> "1980s",
        period_to |-> "2020s",
        meaning_before |-> "Large room-sized calculating machine",
        meaning_after |-> "Any programmable device including phones and tablets",
        explanation |-> "Miniaturization led to computers being embedded everywhere",
        explanation_zh |-> "#",
        evidence |-> "Smartphones, smartwatches, IoT devices all called computers" ]
    >>,
    related_terms |-> <<"Computing", "Calculator", "Processor", "PC", "Laptop", "Server", "Mainframe">>,
    current_status |-> "Ubiquitous term; sometimes considered old-fashioned compared to 'device' for phones/tablets",
    future_prediction |-> "May further broaden to include AI systems, or narrow as 'traditional computers' versus AI agents",
    future_prediction_zh |-> "# AI # AI #" ]

DEMO_virus ==
  [ term |-> "Virus",
    domain |-> "medicine / technology",
    origin_period |-> "1590s",
    origin_language |-> "Latin",
    etymology |-> "From Latin 'virus' meaning 'poison, sap of plants, slimy liquid'. Originally referred to any poisonous substance.",
    etymology_zh |-> "#virus#",
    snapshots |-> <<
      [ term |-> "Virus",
        period |-> "1590-1890",
        year_start |-> 1590,
        year_end |-> 1890,
        definition |-> "Venom, poison, or any noxious substance causing disease",
        definition_zh |-> "#",
        usage_context |-> "Medical/scientific discourse",
        frequency |-> "low",
        domain |-> "Medicine",
        status |-> "established",
        example_sentence |-> "The virus in the wound caused infection.",
        notes |-> "Pre-germ theory understanding" ],
      [ term |-> "Virus",
        period |-> "1890-1950",
        year_start |-> 1890,
        year_end |-> 1950,
        definition |-> "Submicroscopic infectious agent smaller than bacteria",
        definition_zh |-> "#",
        usage_context |-> "Microbiology, medicine",
        frequency |-> "medium",
        domain |-> "Medicine/Science",
        status |-> "evolving",
        example_sentence |-> "The tobacco mosaic virus was the first to be identified.",
        notes |-> "Scientific discovery of viral nature" ],
      [ term |-> "Virus",
        period |-> "1950-1985",
        year_start |-> 1950,
        year_end |-> 1985,
        definition |-> "Infectious agent consisting of nucleic acid in protein coat; causes diseases",
        definition_zh |-> "#",
        usage_context |-> "Medicine, public health",
        frequency |-> "high",
        domain |-> "Medicine",
        status |-> "established",
        example_sentence |-> "The polio virus was nearly eradicated by vaccines.",
        notes |-> "Modern understanding of viral structure" ],
      [ term |-> "Virus",
        period |-> "1985-2000",
        year_start |-> 1985,
        year_end |-> 2000,
        definition |-> "1) Biological pathogen 2) Malicious computer program that self-replicates",
        definition_zh |-> "1) # 2) #",
        usage_context |-> "Medicine and computing",
        frequency |-> "high",
        domain |-> "Medicine/Technology",
        status |-> "evolving",
        example_sentence |-> "My computer caught a virus from that email attachment.",
        notes |-> "Metaphorical extension to computing" ],
      [ term |-> "Virus",
        period |-> "2000-Present",
        year_start |-> 2000,
        year_end |-> 2024,
        definition |-> "1) Biological pathogen 2) Computer malware 3) 'Viral' content that spreads rapidly online",
        definition_zh |-> "1) # 2) # 3) #",
        usage_context |-> "Medicine, tech, social media",
        frequency |-> "high",
        domain |-> "Multiple domains",
        status |-> "established",
        example_sentence |-> "That video went viral overnight.",
        notes |-> "'Viral' became common adjective for internet phenomena" ]
    >>,
    semantic_shifts |-> <<
      [ term |-> "Virus",
        shift_type |-> "narrowing",
        period_from |-> "1590s",
        period_to |-> "1900s",
        meaning_before |-> "Any poison or noxious substance",
        meaning_after |-> "Specific type of submicroscopic pathogen",
        explanation |-> "Scientific discovery narrowed the meaning to a specific biological entity",
        explanation_zh |-> "#",
        evidence |-> "Discovery of viruses as distinct from bacteria" ],
      [ term |-> "Virus",
        shift_type |-> "metaphor",
        period_from |-> "1983",
        period_to |-> "1990s",
        meaning_before |-> "Biological infectious agent only",
        meaning_after |-> "Extended to self-replicating computer programs",
        explanation |-> "The behavior of malicious programs mimicked viral spread",
        explanation_zh |-> "#",
        evidence |-> "First computer virus (Elk Cloner) named using biological metaphor" ],
      [ term |-> "Virus",
        shift_type |-> "broadening",
        period_from |-> "2000s",
        period_to |-> "2010s",
        meaning_before |-> "Harmful entity (biological or digital)",
        meaning_after |-> "Any rapidly spreading phenomenon (including positive ones)",
        explanation |-> "'Going viral' can be positive - rapid spread of popular content",
        explanation_zh |-> "#",
        evidence |-> "Viral marketing, viral videos, viral trends" ]
    >>,
    related_terms |-> <<"Viral", "Malware", "Pathogen", "Infection", "Contagion", "Epidemic", "Pandemic">>,
    current_status |-> "Multi-domain term with biological, computing, and social media meanings all active",
    future_prediction |-> "May develop further meanings related to AI or digital phenomena; biological meaning reinforced post-COVID",
    future_prediction_zh |-> "# AI #" ]

DEMO_cloud ==
  [ term |-> "Cloud",
    domain |-> "technology",
    origin_period |-> "Old English",
    origin_language |-> "Old English (cl#d)",
    etymology |-> "From Old English 'cl#d' originally meaning 'rock, hill' then shifting to 'mass of water vapor'. Technology meaning emerged in 1990s.",
    etymology_zh |-> "#cl#d#1990#",
    snapshots |-> <<
      [ term |-> "Cloud",
        period |-> "Pre-1300",
        year_start |-> 700,
        year_end |-> 1300,
        definition |-> "Rock or hill; mass of earth",
        definition_zh |-> "#",
        usage_context |-> "Geographic description",
        frequency |-> "medium",
        domain |-> "General",
        status |-> "archaic",
        example_sentence |-> "The shepherd climbed the cloud.",
        notes |-> "Original meaning now completely obsolete" ],
      [ term |-> "Cloud",
        period |-> "1300-1990",
        year_start |-> 1300,
        year_end |-> 1990,
        definition |-> "Visible mass of water droplets suspended in atmosphere",
        definition_zh |-> "#",
        usage_context |-> "Weather, poetry, general usage",
        frequency |-> "high",
        domain |-> "Meteorology/General",
        status |-> "established",
        example_sentence |-> "Dark clouds gathered on the horizon.",
        notes |-> "Primary meaning for centuries" ],
      [ term |-> "Cloud",
        period |-> "1990-2006",
        year_start |-> 1990,
        year_end |-> 2006,
        definition |-> "1) Atmospheric phenomenon 2) Network diagram symbol for the internet",
        definition_zh |-> "1) # 2) #",
        usage_context |-> "Meteorology and technical diagrams",
        frequency |-> "high",
        domain |-> "Weather/Technology",
        status |-> "evolving",
        example_sentence |-> "The cloud symbol represents external network connections.",
        notes |-> "Cloud used in network diagrams to represent 'somewhere else'" ],
      [ term |-> "Cloud",
        period |-> "2006-Present",
        year_start |-> 2006,
        year_end |-> 2024,
        definition |-> "1) Atmospheric phenomenon 2) Remote computing services accessed via internet",
        definition_zh |-> "1) # 2) #",
        usage_context |-> "Technology, business, daily life",
        frequency |-> "high",
        domain |-> "Technology",
        status |-> "established",
        example_sentence |-> "Store your files in the cloud for easy access anywhere.",
        notes |-> "Amazon Web Services launched 2006; term became mainstream" ]
    >>,
    semantic_shifts |-> <<
      [ term |-> "Cloud",
        shift_type |-> "metaphor",
        period_from |-> "Pre-1300",
        period_to |-> "1300s",
        meaning_before |-> "Rock or hill (solid earth mass)",
        meaning_after |-> "Mass of water vapor in sky",
        explanation |-> "Transferred from earthly mass to sky mass based on visual similarity",
        explanation_zh |-> "#",
        evidence |-> "Historical etymology documented in OED" ],
      [ term |-> "Cloud",
        shift_type |-> "metaphor",
        period_from |-> "1990s",
        period_to |-> "2000s",
        meaning_before |-> "Only atmospheric water vapor",
        meaning_after |-> "Remote computing infrastructure (invisible, 'up there')",
        explanation |-> "The amorphous, 'somewhere up there' nature of clouds mapped onto remote servers",
        explanation_zh |-> "#",
        evidence |-> "Network engineers used cloud symbol; term stuck" ]
    >>,
    related_terms |-> <<"Cloud computing", "SaaS", "IaaS", "PaaS", "Server", "AWS", "Azure", "Cloudscape">>,
    current_status |-> "Dual meaning fully established; context usually clarifies which meaning intended",
    future_prediction |-> "Technology meaning may become primary as cloud computing becomes ubiquitous; new compounds likely (cloud AI, cloud gaming)",
    future_prediction_zh |-> "# AI#" ]

DEMO_mouse ==
  [ term |-> "Mouse",
    domain |-> "technology",
    origin_period |-> "Old English",
    origin_language |-> "Old English (m#s)",
    etymology |-> "From Old English 'm#s', from Proto-Germanic *m#s, from PIE root *mus- meaning 'mouse'. Computer meaning from 1965.",
    etymology_zh |-> "#m#s# *m#s# *mus-#1965#",
    snapshots |-> <<
      [ term |-> "Mouse",
        period |-> "Old English-1965",
        year_start |-> 700,
        year_end |-> 1965,
        definition |-> "Small rodent with pointed snout and long tail",
        definition_zh |-> "#",
        usage_context |-> "General, zoology",
        frequency |-> "high",
        domain |-> "General/Biology",
        status |-> "established",
        example_sentence |-> "The cat caught a mouse in the barn.",
        notes |-> "Sole meaning for centuries" ],
      [ term |-> "Mouse",
        period |-> "1965-1984",
        year_start |-> 1965,
        year_end |-> 1984,
        definition |-> "1) Rodent 2) Experimental pointing device for computers",
        definition_zh |-> "1) # 2) #",
        usage_context |-> "Research labs, early computing",
        frequency |-> "low",
        domain |-> "Technology (specialized)",
        status |-> "emerging",
        example_sentence |-> "Engelbart demonstrated the mouse at the 1968 conference.",
        notes |-> "Invented by Douglas Engelbart; named for resemblance to rodent" ],
      [ term |-> "Mouse",
        period |-> "1984-2000",
        year_start |-> 1984,
        year_end |-> 2000,
        definition |-> "1) Rodent 2) Hand-held computer input device with buttons",
        definition_zh |-> "1) # 2) #",
        usage_context |-> "Personal computing, offices",
        frequency |-> "high",
        domain |-> "Technology",
        status |-> "established",
        example_sentence |-> "Click the left mouse button to select.",
        notes |-> "Apple Macintosh popularized the mouse in 1984" ],
      [ term |-> "Mouse",
        period |-> "2000-Present",
        year_start |-> 2000,
        year_end |-> 2024,
        definition |-> "1) Rodent 2) Computer pointing device (now wireless, optical, or gaming variants)",
        definition_zh |-> "1) # 2) #",
        usage_context |-> "Computing, gaming",
        frequency |-> "high",
        domain |-> "Technology",
        status |-> "established",
        example_sentence |-> "This gaming mouse has 12 programmable buttons.",
        notes |-> "Plural 'mice' or 'mouses' both acceptable for devices" ]
    >>,
    semantic_shifts |-> <<
      [ term |-> "Mouse",
        shift_type |-> "metaphor",
        period_from |-> "1965",
        period_to |-> "1984",
        meaning_before |-> "Only a small rodent",
        meaning_after |-> "Also a computer input device",
        explanation |-> "Named for visual resemblance - small body with a 'tail' (cord)",
        explanation_zh |-> "#",
        evidence |-> "Douglas Engelbart's naming; cord resembled mouse tail" ]
    >>,
    related_terms |-> <<"Trackpad", "Touchpad", "Pointer", "Cursor", "Click", "Scroll", "Trackball">>,
    current_status |-> "Both meanings fully active; context always clear",
    future_prediction |-> "Computer meaning may decline as touchscreens and gesture control increase; may become retro/specialized term",
    future_prediction_zh |-> "#/#" ]

DEMO_DATA ==
    [ buddha |-> DEMO_buddha, computer |-> DEMO_computer, virus |-> DEMO_virus,
      cloud |-> DEMO_cloud, mouse |-> DEMO_mouse ]

\* the empty JSON object {}
EmptyObject == [k \in {} |-> ""]

\* the fault of testing `data is not None`
Truthy_NotNone(data) == TRUE

\* Python truth value of a dict
Truthy(data) == DOMAIN data # {}

-----------------------------------------------------------------------------
(* VISUALIZATION FUNCTIONS *)

RECURSIVE Flatten(_)
Flatten(ss) == IF Len(ss) = 0 THEN << >> ELSE Head(ss) \o Flatten(Tail(ss))

\* a go.Figure: its annotations, its traces, its title
EmptyFigure == [annotations |-> << >>, traces |-> << >>, title |-> ""]

AnnotatedFigure(text) == [annotations |-> <<text>>, traces |-> << >>, title |-> ""]

status_colors ==
    [ emerging |-> "#22c55e", established |-> "#3b82f6", evolving |-> "#f59e0b",
      deprecated |-> "#ef4444", archaic |-> "#6b7280", revived |-> "#8b5cf6" ]

freq_sizes == [high |-> 45, medium |-> 35, low |-> 25, rare |-> 18]

timeline_shift_colors ==
    [ narrowing |-> "#ef4444", broadening |-> "#22c55e", metaphor |-> "#8b5cf6",
      metonymy |-> "#06b6d4", amelioration |-> "#3b82f6", pejoration |-> "#f59e0b",
      specialization |-> "#ec4899", generalization |-> "#14b8a6" ]

\* re.search(r'-?\d{3,4}', s): the leftmost match, each quantifier greedy
IsDigitAt(s, i) == i >= 1 /\ i <= Len(s) /\ Char(s, i) \in Digits

ThreeDigitsAt(s, i) == IsDigitAt(s, i) /\ IsDigitAt(s, i + 1) /\ IsDigitAt(s, i + 2)

YearMatchAt(s, i) ==
    \/ Char(s, i) = "-" /\ ThreeDigitsAt(s, i + 1)
    \/ ThreeDigitsAt(s, i)

YearMatchStarts(s) == {i \in 1..Len(s) : YearMatchAt(s, i)}

\* match.group() of that search
YearMatchGroup(s) ==
    LET i == SetMin(YearMatchStarts(s))
        d == IF Char(s, i) = "-" THEN i + 1 ELSE i
        n == IF IsDigitAt(s, d + 3) THEN 4 ELSE 3
    IN  SubSeq(s, i, d + n - 1)

\* the keyword table of extract_year, in the order the dict literal gives
mappings ==
    << <<"pre-1900", 1850>>, <<"1900", 1925>>, <<"1950", 1965>>,
       <<"1980", 1990>>, <<"2000", 2005>>, <<"2010", 2015>>,
       <<"2020", 2022>>, <<"present", 2023>>, <<"bce", -400>> >>

DefaultYear == 2000

\* the fault of searching the keywords in the label as written (no .lower())
extract_year_CaseSensitive(period_str) ==
    LET s == py_str(period_str)
        hits == {i \in 1..Len(mappings) : str_contains(s, mappings[i][1])}
    IN  IF YearMatchStarts(s) # {} THEN py_int(YearMatchGroup(s))
        ELSE IF hits # {} THEN mappings[SetMin(hits)][2]
        ELSE DefaultYear

extract_year(period_str) ==
    LET s == py_str(period_str)
        period_lower == str_lower(s)
        hits == {i \in 1..Len(mappings) : str_contains(period_lower, mappings[i][1])}
    IN  IF YearMatchStarts(s) # {} THEN py_int(YearMatchGroup(s))
        ELSE IF hits # {} THEN mappings[SetMin(hits)][2]
        ELSE DefaultYear

\* the exceptions of a renderer: a method called on, or a slice taken of, None
NullField(d, key) == key \in DOMAIN d /\ d[key] = JsonNull

Snapshots(data) == Get(data, "snapshots", << >>)
Shifts(data) == Get(data, "semantic_shifts", << >>)

TimelineBar(snap) ==
    LET year_start == Get(snap, "year_start", 1900)
        year_end == Get(snap, "year_end", 2000)
        status == str_lower(Get(snap, "status", "established"))
    IN  [ mode |-> "lines",
          x_twice |-> <<2 * year_start, 2 * year_end>>,
          y_tenths |-> <<10, 10>>,
          color |-> Get(status_colors, status, "#3b82f6"),
          size |-> 20,
          text |-> << >>,
          name |-> "",
          hovertemplate |-> "" ]

\* the fault of putting the marker at the start of the period
TimelineMarker_AtStart(snap) ==
    [ TimelineBar(snap) EXCEPT
          !.mode = "markers+text",
          !.x_twice = <<2 * Get(snap, "year_start", 1900)>>,
          !.y_tenths = <<13>>,
          !.text = <<Get(snap, "period", "")>>,
          !.name = Get(snap, "period", "") ]

TimelineMarker(snap) ==
    LET year_start == Get(snap, "year_start", 1900)
        year_end == Get(snap, "year_end", 2000)
        status == str_lower(Get(snap, "status", "established"))
        freq == str_lower(Get(snap, "frequency", "medium"))
    IN  [ mode |-> "markers+text",
          x_twice |-> <<year_start + year_end>>,
          y_tenths |-> <<13>>,
          color |-> Get(status_colors, status, "#3b82f6"),
          size |-> Get(freq_sizes, freq, 30),
          text |-> <<Get(snap, "period", "")>>,
          name |-> Get(snap, "period", ""),
          hovertemplate |->
              "<b>" \o py_str(Get(snap, "period", "")) \o "</b><br>"
              \o "Status: " \o py_str(Get(snap, "status", "N/A")) \o "<br>"
              \o "Frequency: " \o py_str(Get(snap, "frequency", "N/A")) \o "<br>"
              \o "Definition: " \o str_prefix(Get(snap, "definition", ""), 80) \o "...<br>"
              \o "#: " \o str_prefix(Get(snap, "definition_zh", ""), 40) \o "...<br>"
              \o "<extra></extra>" ]

\* i counts from 0, as enumerate(shifts) does
TimelineShift(shift, i) ==
    LET shift_type == str_lower(Get(shift, "shift_type", ""))
        year_from == extract_year(Get(shift, "period_from", "1900"))
        year_to == extract_year(Get(shift, "period_to", "2000"))
    IN  [ mode |-> "lines+markers+text",
          x_twice |-> <<2 * year_from, 2 * year_to>>,
          y_tenths |-> <<4 - i * 2, 4 - i * 2>>,
          color |-> Get(timeline_shift_colors, shift_type, "#6b7280"),
          size |-> 12,
          text |-> <<"", str_upper(shift_type)>>,
          name |-> "Shift: " \o shift_type,
          hovertemplate |->
              "<b>" \o str_upper(shift_type) \o "</b><br>"
              \o "Before: " \o py_str(Get(shift, "meaning_before", "")) \o "<br>"
              \o "After: " \o py_str(Get(shift, "meaning_after", "")) \o "<br>"
              \o py_str(Get(shift, "period_from", "")) \o " # "
              \o py_str(Get(shift, "period_to", "")) \o "<br>"
              \o "<extra></extra>" ]

create_timeline_chart_raises(data) ==
    /\ Truthy(data) /\ "snapshots" \in DOMAIN data
    /\ \/ \E i \in 1..Len(Snapshots(data)) :
              \/ NullField(Snapshots(data)[i], "status")
              \/ NullField(Snapshots(data)[i], "frequency")
              \/ NullField(Snapshots(data)[i], "definition")
              \/ NullField(Snapshots(data)[i], "definition_zh")
       \/ \E i \in 1..Len(Shifts(data)) : NullField(Shifts(data)[i], "shift_type")

create_timeline_chart(data) ==
    IF ~Truthy(data) \/ "snapshots" \notin DOMAIN data
    THEN AnnotatedFigure("No data available")
    ELSE LET snapshots == Snapshots(data)
             shifts == Shifts(data)
         IN  [ annotations |-> << >>,
               traces |->
                   Flatten([i \in 1..Len(snapshots) |->
                               <<TimelineBar(snapshots[i]), TimelineMarker(snapshots[i])>>])
                   \o [i \in 1..Len(shifts) |-> TimelineShift(shifts[i], i - 1)],
               title |-> "# Evolution Timeline: " \o py_str(Get(data, "term", "Term")) ]

\* the fault of a new item for every snapshot, counted or not
DictIncrement_Appending(items, key) == Append(items, <<key, 1>>)

\* status_counts[status] = status_counts.get(status, 0) + 1, the dict as the
\* sequence of its <<key, count>> items in insertion order
DictIncrement(items, key) ==
    IF \E i \in 1..Len(items) : items[i][1] = key
    THEN [i \in 1..Len(items) |->
             IF items[i][1] = key THEN <<key, items[i][2] + 1>> ELSE items[i]]
    ELSE Append(items, <<key, 1>>)

RECURSIVE StatusCounts(_, _)
StatusCounts(snapshots, items) ==
    IF Len(snapshots) = 0 THEN items
    ELSE StatusCounts(Tail(snapshots),
                      DictIncrement(items, Get(Head(snapshots), "status", "unknown")))

create_status_pie(data) ==
    IF ~Truthy(data) \/ "snapshots" \notin DOMAIN data
    THEN AnnotatedFigure("No data")
    ELSE LET status_counts == StatusCounts(Snapshots(data), << >>)
             n == Len(status_counts)
         IN  [ annotations |-> << >>,
               traces |->
                   << [ labels |-> [i \in 1..n |-> status_counts[i][1]],
                        values |-> [i \in 1..n |-> status_counts[i][2]],
                        marker_colors |->
                            [i \in 1..n |-> Get(status_colors, status_counts[i][1], "#888")] ] >>,
               title |-> "# Status Distribution #" ]

freq_map == [high |-> 4, medium |-> 3, low |-> 2, rare |-> 1]

\* the fault of looking the frequency up as written (no .lower())
FrequencyLevel_CaseSensitive(snap) == Get(freq_map, Get(snap, "frequency", "medium"), 2)

\* freq_map.get(s.get("frequency", "medium").lower(), 2)
FrequencyLevel(snap) == Get(freq_map, str_lower(Get(snap, "frequency", "medium")), 2)

\* the fault of reading the field as s["frequency"]: KeyError when it is absent
create_frequency_chart_raises_Indexing(data) ==
    /\ Truthy(data) /\ "snapshots" \in DOMAIN data
    /\ \E i \in 1..Len(Snapshots(data)) :
           \/ "frequency" \notin DOMAIN Snapshots(data)[i]
           \/ NullField(Snapshots(data)[i], "frequency")

create_frequency_chart_raises(data) ==
    /\ Truthy(data) /\ "snapshots" \in DOMAIN data
    /\ \E i \in 1..Len(Snapshots(data)) : NullField(Snapshots(data)[i], "frequency")

create_frequency_chart(data) ==
    IF ~Truthy(data) \/ "snapshots" \notin DOMAIN data
    THEN AnnotatedFigure("No data")
    ELSE LET snapshots == Snapshots(data)
         IN  [ annotations |-> << >>,
               traces |->
                   << [ x |-> [i \in 1..Len(snapshots) |-> Get(snapshots[i], "period", "")],
                        y |-> [i \in 1..Len(snapshots) |-> FrequencyLevel(snapshots[i])] ] >>,
               title |-> "# Usage Frequency Over Time #" ]

sankey_shift_colors ==
    [ narrowing |-> "rgba(239, 68, 68, 0.6)", broadening |-> "rgba(34, 197, 94, 0.6)",
      metaphor |-> "rgba(139, 92, 246, 0.6)", metonymy |-> "rgba(6, 182, 212, 0.6)",
      amelioration |-> "rgba(59, 130, 246, 0.6)", pejoration |-> "rgba(245, 158, 11, 0.6)",
      specialization |-> "rgba(236, 72, 153, 0.6)",
      generalization |-> "rgba(20, 184, 166, 0.6)" ]

MeaningPrefixLen == 30

\* labels.index(x), counting from 0
ListIndex(l, x) == SetMin({i \in 1..Len(l) : l[i] = x}) - 1

\* the fault of appending a label whether or not the list has it
AppendIfAbsent_Always(l, x) == Append(l, x)

AppendIfAbsent(l, x) == IF \E i \in 1..Len(l) : l[i] = x THEN l ELSE Append(l, x)

\* the loop of create_shift_sankey over the shifts, acc the five lists so far
RECURSIVE SankeyLoop(_, _)
SankeyLoop(shifts, acc) ==
    IF Len(shifts) = 0 THEN acc
    ELSE LET shift == Head(shifts)
             before == str_prefix(Get(shift, "meaning_before", "Unknown"), MeaningPrefixLen)
             after == str_prefix(Get(shift, "meaning_after", "Unknown"), MeaningPrefixLen)
             shift_type == Get(shift, "shift_type", "unknown")
             labels == AppendIfAbsent(AppendIfAbsent(acc.label, before), after)
         IN  SankeyLoop(Tail(shifts),
                 [ label |-> labels,
                   source |-> Append(acc.source, ListIndex(labels, before)),
                   target |-> Append(acc.target, ListIndex(labels, after)),
                   value |-> Append(acc.value, 1),
                   color |-> Append(acc.color,
                       Get(sankey_shift_colors, str_lower(shift_type), "rgba(128,128,128,0.5)")) ])

create_shift_sankey_raises(data) ==
    /\ Truthy(data) /\ "semantic_shifts" \in DOMAIN data
    /\ \E i \in 1..Len(Shifts(data)) :
           \/ NullField(Shifts(data)[i], "meaning_before")
           \/ NullField(Shifts(data)[i], "meaning_after")
           \/ NullField(Shifts(data)[i], "shift_type")

create_shift_sankey(data) ==
    IF ~Truthy(data) \/ "semantic_shifts" \notin DOMAIN data
    THEN AnnotatedFigure("No semantic shifts found")
    ELSE IF Len(Shifts(data)) = 0
    THEN AnnotatedFigure("No semantic shifts recorded")
    ELSE [ annotations |-> << >>,
           traces |->
               << SankeyLoop(Shifts(data),
                      [ label |-> << >>, source |-> << >>, target |-> << >>,
                        value |-> << >>, color |-> << >> ]) >>,
           title |-> "# Semantic Shift Flow: " \o py_str(Get(data, "term", "Term")) ]

\* the fault of numbering the entries from 0 (enumerate without its start)
ReportSnapshotLines_FromZero(snap, i) ==
    << "\n#" \o ToString(i - 1) \o "# " \o py_str(Get(snap, "period", "N/A")),
       "    Status: " \o py_str(Get(snap, "status", "N/A"))
           \o " | Frequency: " \o py_str(Get(snap, "frequency", "N/A")),
       "    EN: " \o py_str(Get(snap, "definition", "N/A")),
       "    #: " \o py_str(Get(snap, "definition_zh", "N/A")) >>

ReportSnapshotLines(snap, i) ==
    << "\n#" \o ToString(i) \o "# " \o py_str(Get(snap, "period", "N/A")),
       "    Status: " \o py_str(Get(snap, "status", "N/A"))
           \o " | Frequency: " \o py_str(Get(snap, "frequency", "N/A")),
       "    EN: " \o py_str(Get(snap, "definition", "N/A")),
       "    #: " \o py_str(Get(snap, "definition_zh", "N/A")) >>

ReportShiftLines(shift, i) ==
    << "\n#" \o ToString(i) \o "# " \o str_upper(Get(shift, "shift_type", "N/A")),
       "    " \o py_str(Get(shift, "period_from", "")) \o " # "
           \o py_str(Get(shift, "period_to", "")),
       "    Before: " \o py_str(Get(shift, "meaning_before", "N/A")),
       "    After: " \o py_str(Get(shift, "meaning_after", "N/A")),
       "    #: " \o py_str(Get(shift, "explanation_zh", Get(shift, "explanation", "N/A"))) >>

format_report_raises(data) ==
    /\ Truthy(data)
    /\ \E i \in 1..Len(Shifts(data)) : NullField(Shifts(data)[i], "shift_type")

RuleWidth == 60

format_report(data) ==
    IF ~Truthy(data) THEN "No data available"
    ELSE LET snapshots == Snapshots(data)
             shifts == Shifts(data)
             related == Get(data, "related_terms", << >>)
         IN  str_join("\n",
               << str_repeat("=", RuleWidth),
                  "# TERMINOLOGY EVOLUTION REPORT #",
                  str_repeat("=", RuleWidth),
                  "",
                  "# Term #: " \o py_str(Get(data, "term", "N/A")),
                  "#  Domain #: " \o py_str(Get(data, "domain", "N/A")),
                  "# Origin #: " \o py_str(Get(data, "origin_period", "N/A"))
                      \o " (" \o py_str(Get(data, "origin_language", "N/A")) \o ")",
                  "",
                  "# Etymology #:",
                  "   EN: " \o py_str(Get(data, "etymology", "N/A")),
                  "   #: " \o py_str(Get(data, "etymology_zh", "N/A")),
                  "",
                  str_repeat("-", RuleWidth),
                  "# HISTORICAL SNAPSHOTS #",
                  str_repeat("-", RuleWidth) >>
               \o Flatten([i \in 1..Len(snapshots) |-> ReportSnapshotLines(snapshots[i], i)])
               \o << "",
                     str_repeat("-", RuleWidth),
                     "# SEMANTIC SHIFTS #",
                     str_repeat("-", RuleWidth) >>
               \o Flatten([i \in 1..Len(shifts) |-> ReportShiftLines(shifts[i], i)])
               \o << "",
                     str_repeat("-", RuleWidth),
                     "# CURRENT STATUS & PREDICTIONS",
                     str_repeat("-", RuleWidth),
                     "\nCurrent: " \o py_str(Get(data, "current_status", "N/A")),
                     "\nPrediction: " \o py_str(Get(data, "future_prediction", "N/A")),
                     "#: " \o py_str(Get(data, "future_prediction_zh", "N/A")) >>
               \o (IF Len(related) > 0
                   THEN << "\n# Related: " \o str_join(", ", related) >>
                   ELSE << >>))

-----------------------------------------------------------------------------
(* SIMPLIFIED API CLIENT *)

\* re.search(r'\{[\s\S]*\}', text): from the first "{" to the last "}" after it
BraceOpens(text) == {i \in 1..Len(text) : Char(text, i) = "{"}
BraceCloses(text) == {i \in 1..Len(text) : Char(text, i) = "}"}

BraceMatches(text) ==
    /\ BraceOpens(text) # {}
    /\ \E j \in BraceCloses(text) : j > SetMin(BraceOpens(text))

\* the fault of the non-greedy pattern: up to the first "}" after the "{"
BraceMatchGroup_NonGreedy(text) ==
    SubSeq(text, SetMin(BraceOpens(text)),
           SetMin({j \in BraceCloses(text) : j > SetMin(BraceOpens(text))}))

BraceMatchGroup(text) == SubSeq(text, SetMin(BraceOpens(text)), SetMax(BraceCloses(text)))

\* the objects the text-generation service is taken to write
WellFormedObject ==
    [ term |-> "quantum", domain |-> "general",
      origin_period |-> "1900s", origin_language |-> "Latin",
      etymology |-> "From Latin \"quantus\"", etymology_zh |-> "#",
      snapshots |-> <<
          [ period |-> "1900-1950", year_start |-> 1900, year_end |-> 1950,
            definition |-> "discrete amount", definition_zh |-> "#",
            frequency |-> "low", status |-> "emerging" ],
          [ period |-> "1950-Present", year_start |-> 1950, year_end |-> 2025,
            definition |-> "of quantum mechanics", definition_zh |-> "#",
            frequency |-> "High", status |-> "Established" ] >>,
      semantic_shifts |-> <<
          [ shift_type |-> "Broadening", period_from |-> "early 1900s",
            period_to |-> "present", meaning_before |-> "amount",
            meaning_after |-> "smallest unit", explanation |-> "physics",
            explanation_zh |-> "#" ] >>,
      related_terms |-> <<"quanta", "qubit">>,
      current_status |-> "active", future_prediction |-> "growth",
      future_prediction_zh |-> "#" ]

\* only some of the optional fields
SparseObject ==
    [ term |-> "quantum",
      snapshots |-> << [period |-> "1990s"], [frequency |-> "seldom", year_start |-> -50] >>,
      semantic_shifts |-> << [meaning_after |-> "smallest unit"] >> ]

TermOnlyObject == [term |-> "quantum"]

NoItemsObject == [term |-> "quantum", snapshots |-> << >>, semantic_shifts |-> << >>]

\* a text field holding null
NullFrequencyObject ==
    [ term |-> "quantum",
      snapshots |-> << [period |-> "1990s", frequency |-> JsonNull, status |-> "evolving"] >> ]

NullShiftTypeObject ==
    [ term |-> "quantum",
      semantic_shifts |-> << [shift_type |-> JsonNull, meaning_before |-> "amount"] >> ]

ProducerObjects ==
    { WellFormedObject, SparseObject, TermOnlyObject, NoItemsObject, EmptyObject,
      NullFrequencyObject, NullShiftTypeObject }

\* the JSON texts of each object: on one line, and indented
JsonTexts == [d \in ProducerObjects |-> {json_dumps(d, -1), json_dumps(d, 2)}]

\* json.loads(text): the object whose JSON text it is, or JSONDecodeError
json_loads_raises(text) == ~ \E d \in ProducerObjects : text \in JsonTexts[d]

json_loads(text) == CHOOSE d \in ProducerObjects : text \in JsonTexts[d]

\* the outcomes of client.chat.complete(...): an exception, or a reply text
ApiRaise == [kind |-> "raise", text |-> ""]
\* no call of client.chat.complete has come back
NoReply == [kind |-> "none", text |-> ""]
ApiReply(text) == [kind |-> "reply", text |-> text]

ReplyTexts ==
    {json_dumps(d, -1) : d \in ProducerObjects}
    \cup { "Here is the analysis:\n" \o json_dumps(WellFormedObject, 2) \o "\nDone.",
           "I cannot analyze this term.",
           "{\"term\": \"quantum\"",
           "} no object {",
           "{not json}",
           json_dumps(TermOnlyObject, -1) \o " or " \o json_dumps(NoItemsObject, -1),
           "Use {braces}: " \o json_dumps(TermOnlyObject, -1) }

ApiOutcomes == {ApiRaise} \cup {ApiReply(t) : t \in ReplyTexts}

\* None, or the dict returned
NoneValue == [found |-> FALSE, data |-> EmptyObject]
DictValue(d) == [found |-> TRUE, data |-> d]

\* SimpleTermTracker.analyze_term from the return of client.chat.complete on:
\* the try block and its except
SimpleTermTracker_analyze_term(outcome) ==
    IF outcome.kind = "raise" THEN NoneValue
    ELSE IF ~BraceMatches(outcome.text) THEN NoneValue
    ELSE IF json_loads_raises(BraceMatchGroup(outcome.text)) THEN NoneValue
    ELSE DictValue(json_loads(BraceMatchGroup(outcome.text)))

\* SimpleTermTracker(api_key); client is FALSE for None (the import or the
\* constructor of the client raised)
SimpleTermTracker(api_key, client) == [is_set |-> TRUE, api_key |-> api_key, client |-> client]

\* tracker = None
NoTracker == [is_set |-> FALSE, api_key |-> "", client |-> FALSE]

-----------------------------------------------------------------------------
(* MAIN ANALYSIS FUNCTION *)

\* the tuple analyze_term returns, or the exception that leaves it
Returned(report, timeline, status_pie, freq_chart, sankey, json_out) ==
    [ status |-> "returned", report |-> report, timeline |-> timeline,
      status_pie |-> status_pie, freq_chart |-> freq_chart, sankey |-> sankey,
      json_out |-> json_out ]

Raised ==
    [ status |-> "raised", report |-> "", timeline |-> EmptyFigure,
      status_pie |-> EmptyFigure, freq_chart |-> EmptyFigure, sankey |-> EmptyFigure,
      json_out |-> "" ]

NoResult ==
    [ status |-> "none", report |-> "", timeline |-> EmptyFigure,
      status_pie |-> EmptyFigure, freq_chart |-> EmptyFigure, sankey |-> EmptyFigure,
      json_out |-> "" ]

ValidationResult ==
    Returned("# Please enter a term. #", EmptyFigure, EmptyFigure, EmptyFigure,
             EmptyFigure, "")

\* the fault of returning four bare figures, as the validation branch does
NoDataResult_BareFigures(term) ==
    Returned("# No data for '" \o term
                 \o "'. Try demo terms: buddha, computer, virus, cloud, mouse\n\n"
                 \o "Or set your API key to analyze custom terms.",
             EmptyFigure, EmptyFigure, EmptyFigure, EmptyFigure, "")

NoDataResult(term) ==
    Returned("# No data for '" \o term
                 \o "'. Try demo terms: buddha, computer, virus, cloud, mouse\n\n"
                 \o "Or set your API key to analyze custom terms.",
             AnnotatedFigure("No data for '" \o term \o "'"),
             EmptyFigure, EmptyFigure, EmptyFigure, "")

RenderRaises(data) ==
    \/ format_report_raises(data)
    \/ create_timeline_chart_raises(data)
    \/ create_frequency_chart_raises(data)
    \/ create_shift_sankey_raises(data)

\* the six statements of analyze_term that render a record
RenderResult(data) ==
    IF RenderRaises(data) THEN Raised
    ELSE Returned(format_report(data), create_timeline_chart(data),
                  create_status_pie(data), create_frequency_chart(data),
                  create_shift_sankey(data), json_dumps(data, 2))

\* the fault of testing `not term` only
BlankTerm_EmptyOnly(term) == Len(term) = 0

\* `not term or not term.strip()`
BlankTerm(term) == Len(term) = 0 \/ Len(str_strip(term)) = 0

\* the fault of looking the term up without .lower()
StoreHas_CaseSensitive(term) == str_strip(term) \in DOMAIN store

\* `term_lower in DEMO_DATA` and DEMO_DATA[term_lower], term_lower = term.strip().lower()
StoreHas(term) == str_lower(str_strip(term)) \in DOMAIN store

StoreEntry(term) == store[str_lower(str_strip(term))]

\* the fault of cutting the meaning texts of the record itself, where
\* create_shift_sankey cuts copies of them
RecordAfterRender_Truncating(data) ==
    [ k \in DOMAIN data |->
          IF k = "semantic_shifts"
          THEN [ i \in 1..Len(data[k]) |->
                     [ f \in DOMAIN data[k][i] |->
                           IF f \in {"meaning_before", "meaning_after"}
                           THEN str_prefix(data[k][i][f], MeaningPrefixLen)
                           ELSE data[k][i][f] ] ]
          ELSE data[k] ]

\* the record a caller holds after format_report, the four chart builders and
\* json.dumps were given it: they read it (get, enumerate, slices of copies)
\* and assign to none of its items
RecordAfterRender(data) == data

\* DEMO_DATA after the entry of the term was rendered
StoreAfterRender(term) ==
    [store EXCEPT ![str_lower(str_strip(term))] = RecordAfterRender(@)]

\* the inputs of the model
Terms ==
    { "", " \t", "buddha", " Buddha\n", "COMPUTER", "Virus ", "cloud", "MoUsE",
      "xyzzynotaterm", " Quantum ", "buddhas" }

Domains == {"general", "technology"}

ApiKeys == {"", "   ", "sk-A", " sk-B\n"}

IdleRequest ==
    [ pc |-> "idle", term |-> "", domain |-> "", store_checked |-> FALSE,
      invoked |-> FALSE, calls |-> 0, self |-> NoTracker, reply |-> NoReply,
      data |-> EmptyObject, result |-> NoResult ]

Finish(r, data, result) == [r EXCEPT !.pc = "done", !.data = data, !.result = result]

\* the fault of keeping the tracker of the first key set
initialize_tracker_KeepsFirst(api_key) ==
    /\ program = "app"
    /\ api_input' = api_key
    /\ IF Len(api_key) > 0 /\ Len(str_strip(api_key)) > 0
       THEN /\ IF tracker.is_set THEN tracker' = tracker
               ELSE \E client \in BOOLEAN :
                        tracker' = SimpleTermTracker(str_strip(api_key), client)
            /\ ui' = "# API key set! You can now analyze custom terms. Demo data available for: buddha, computer, virus, cloud, mouse"
       ELSE /\ tracker' = tracker
            /\ ui' = "# No API key provided. Using demo data only. Available terms: buddha, computer, virus, cloud, mouse"
    /\ UNCHANGED <<program, store, req, lib, yx, rx>>

\* initialize_tracker(api_key), the click handler of the Set Key button
initialize_tracker(api_key) ==
    /\ program = "app"
    /\ api_input' = api_key
    /\ IF Len(api_key) > 0 /\ Len(str_strip(api_key)) > 0
       THEN /\ \E client \in BOOLEAN :
                   tracker' = SimpleTermTracker(str_strip(api_key), client)
            /\ ui' = "# API key set! You can now analyze custom terms. Demo data available for: buddha, computer, virus, cloud, mouse"
       ELSE /\ tracker' = tracker
            /\ ui' = "# No API key provided. Using demo data only. Available terms: buddha, computer, virus, cloud, mouse"
    /\ UNCHANGED <<program, store, req, lib, yx, rx>>

\* the fault of asking the text-generation service before the demo data
analyze_term_ProducerFirst(term, domain) ==
    /\ program = "app"
    /\ req.pc = "idle"
    /\ LET r == [IdleRequest EXCEPT !.term = term, !.domain = domain]
       IN  req' = IF BlankTerm(term) THEN Finish(r, EmptyObject, ValidationResult)
                  ELSE IF tracker.is_set /\ tracker.client
                  THEN [r EXCEPT !.invoked = TRUE, !.self = tracker, !.calls = 1,
                                 !.pc = "waiting"]
                  ELSE IF StoreHas(term)
                  THEN Finish([r EXCEPT !.store_checked = TRUE],
                              RecordAfterRender(StoreEntry(term)),
                              RenderResult(StoreEntry(term)))
                  ELSE [r EXCEPT !.store_checked = TRUE, !.pc = "check_tracker"]
    /\ store' = IF ~BlankTerm(term) /\ StoreHas(term) THEN StoreAfterRender(term) ELSE store
    /\ UNCHANGED <<program, api_input, tracker, ui, lib, yx, rx>>

\* analyze_term(term, domain) up to its first read of the global tracker:
\* the validation, the demo data lookup and the rendering of a demo entry
analyze_term(term, domain) ==
    /\ program = "app"
    /\ req.pc = "idle"
    /\ LET r == [IdleRequest EXCEPT !.term = term, !.domain = domain]
       IN  req' = IF BlankTerm(term) THEN Finish(r, EmptyObject, ValidationResult)
                  ELSE IF StoreHas(term)
                  THEN Finish([r EXCEPT !.store_checked = TRUE],
                              RecordAfterRender(StoreEntry(term)),
                              RenderResult(StoreEntry(term)))
                  ELSE [r EXCEPT !.store_checked = TRUE, !.pc = "check_tracker"]
    /\ store' = IF ~BlankTerm(term) /\ StoreHas(term) THEN StoreAfterRender(term) ELSE store
    /\ UNCHANGED <<program, api_input, tracker, ui, lib, yx, rx>>

\* the fault of `if tracker.client:` alone: an attribute of None is read
analyze_term_check_tracker_Unguarded ==
    /\ program = "app"
    /\ req.pc = "check_tracker"
    /\ req' = IF ~tracker.is_set THEN Finish(req, EmptyObject, Raised)
              ELSE [req EXCEPT !.pc = "check_client"]
    /\ UNCHANGED <<program, api_input, store, tracker, ui, lib, yx, rx>>

\* `if tracker ...`: the first read of the global
analyze_term_check_tracker ==
    /\ program = "app"
    /\ req.pc = "check_tracker"
    /\ req' = IF tracker.is_set THEN [req EXCEPT !.pc = "check_client"]
              ELSE Finish(req, EmptyObject, NoDataResult(req.term))
    /\ UNCHANGED <<program, api_input, store, tracker, ui, lib, yx, rx>>

\* `... and tracker.client:`: the second read of the global
analyze_term_check_client ==
    /\ program = "app"
    /\ req.pc = "check_client"
    /\ req' = IF ~tracker.is_set THEN Finish(req, EmptyObject, Raised)
              ELSE IF tracker.client THEN [req EXCEPT !.pc = "call"]
              ELSE Finish(req, EmptyObject, NoDataResult(req.term))
    /\ UNCHANGED <<program, api_input, store, tracker, ui, lib, yx, rx>>

\* `tracker.analyze_term(term, domain)`: the third read of the global, and
\* SimpleTermTracker.analyze_term up to its call of client.chat.complete
analyze_term_invoke ==
    /\ program = "app"
    /\ req.pc = "call"
    /\ req' = IF ~tracker.is_set THEN Finish(req, EmptyObject, Raised)
              ELSE IF ~tracker.client
              THEN Finish([req EXCEPT !.invoked = TRUE, !.self = tracker],
                          EmptyObject, NoDataResult(req.term))
              ELSE [req EXCEPT !.invoked = TRUE, !.self = tracker,
                               !.calls = req.calls + 1, !.pc = "waiting"]
    /\ UNCHANGED <<program, api_input, store, tracker, ui, lib, yx, rx>>

\* the fault of calling the service again when a call brought no record
api_responds_Retry(outcome) ==
    /\ program = "app"
    /\ req.pc = "waiting"
    /\ LET got == SimpleTermTracker_analyze_term(outcome)
           r == [req EXCEPT !.reply = outcome]
       IN  req' = IF got.found /\ Truthy(got.data)
                  THEN Finish(r, RecordAfterRender(got.data), RenderResult(got.data))
                  ELSE [r EXCEPT !.pc = "call"]
    /\ UNCHANGED <<program, api_input, store, tracker, ui, lib, yx, rx>>

\* client.chat.complete returns or raises; SimpleTermTracker.analyze_term
\* returns; analyze_term renders the dict or reports no data
api_responds(outcome) ==
    /\ program = "app"
    /\ req.pc = "waiting"
    /\ LET got == SimpleTermTracker_analyze_term(outcome)
           r == [req EXCEPT !.reply = outcome]
       IN  req' = IF got.found /\ Truthy(got.data)
                  THEN Finish(r, RecordAfterRender(got.data), RenderResult(got.data))
                  ELSE Finish(r, EmptyObject, NoDataResult(req.term))
    /\ UNCHANGED <<program, api_input, store, tracker, ui, lib, yx, rx>>

\* the fault of a handler that clears the global tracker as it returns
analyze_term_return_ResetsTracker ==
    /\ program = "app"
    /\ req.pc = "done"
    /\ req' = IdleRequest
    /\ tracker' = NoTracker
    /\ UNCHANGED <<program, api_input, store, ui, lib, yx, rx>>

\* the handler has returned (or raised); the next event is served
analyze_term_return ==
    /\ program = "app"
    /\ req.pc = "done"
    /\ req' = IdleRequest
    /\ UNCHANGED <<program, api_input, store, tracker, ui, lib, yx, rx>>

-----------------------------------------------------------------------------
(* TerminologyEvolutionTracker (terminology_evolution_tracker.py) *)

LibTerms == {"AI", "ai"}

\* TermEvolutionRecord(term=data.get("term", term), ...)
TermEvolutionRecord(data, term, domain) ==
    [ term |-> Get(data, "term", term),
      domain |-> Get(data, "domain", domain),
      origin_period |-> Get(data, "origin_period", "Unknown"),
      origin_language |-> Get(data, "origin_language", "Unknown"),
      etymology |-> Get(data, "etymology", ""),
      etymology_zh |-> Get(data, "etymology_zh", ""),
      snapshots |-> Get(data, "snapshots", << >>),
      semantic_shifts |-> Get(data, "semantic_shifts", << >>),
      related_terms |-> Get(data, "related_terms", << >>),
      current_status |-> Get(data, "current_status", ""),
      future_prediction |-> Get(data, "future_prediction", ""),
      future_prediction_zh |-> Get(data, "future_prediction_zh", "") ]

\* the value analyze_term_evolution returns from the return of
\* client.chat.complete on: the try block and its except
analyze_term_evolution_result(outcome, term, domain) ==
    IF outcome.kind = "raise" THEN NoneValue
    ELSE IF ~BraceMatches(outcome.text) THEN NoneValue
    ELSE IF json_loads_raises(BraceMatchGroup(outcome.text)) THEN NoneValue
    ELSE DictValue(TermEvolutionRecord(json_loads(BraceMatchGroup(outcome.text)),
                                       term, domain))

\* that value for every outcome and every call of the model, worked out once
analyze_term_evolution_results ==
    [ outcome \in ApiOutcomes, term \in LibTerms, domain \in Domains |->
          analyze_term_evolution_result(outcome, term, domain) ]

\* the fault of a key put in lower case
DatabasePut_Normalized(database, term, record) ==
    [t \in DOMAIN database \cup {str_lower(term)} |->
         IF t = str_lower(term) THEN record ELSE database[t]]

\* self.evolution_database[term] = record
DatabasePut(database, term, record) ==
    [t \in DOMAIN database \cup {term} |-> IF t = term THEN record ELSE database[t]]

\* None as an api_key argument, and os.environ.get of a variable that is not set
PyNone == "\\None"

\* `not value` of an Optional[str]
Falsy(value) == value = PyNone \/ Len(value) = 0

\* the api_key arguments and the values of MISTRAL_API_KEY
KeyArguments == {PyNone, "", " ", "sk-arg"}
EnvironKeys == {PyNone, "", "sk-env"}

\* no analyze_multiple_terms call under way; of one under way, the terms
\* passed, the terms analyze_term_evolution was called with, the replies of
\* the service to them, and the `results` list
NoBatch == [terms |-> << >>, called |-> << >>, replies |-> << >>, results |-> << >>]

\* no tracker object: none was constructed yet, or the constructor raised
NewLib ==
    [ pc |-> "new", term |-> "", domain |-> "", calls |-> 0,
      evolution_database |-> EmptyObject, ret |-> NoneValue,
      api_key |-> PyNone, client |-> PyNone, error |-> "",
      arg |-> PyNone, environ |-> PyNone, reply |-> NoReply, batch |-> NoBatch ]

\* a tracker object between two calls: its attributes, client as the key the
\* Mistral client was created with; arg and environ are the api_key argument
\* and MISTRAL_API_KEY of a constructor call, until the first call returns
IdleLib(api_key, database) ==
    [ pc |-> "idle", term |-> "", domain |-> "", calls |-> 0,
      evolution_database |-> database, ret |-> NoneValue,
      api_key |-> api_key, client |-> api_key, error |-> "",
      arg |-> PyNone, environ |-> PyNone, reply |-> NoReply, batch |-> NoBatch ]

\* the fault of testing the argument alone, the environment variable unread
TerminologyEvolutionTracker_init_ArgumentOnly(api_key, environ_key) ==
    /\ program = "lib"
    /\ lib.pc \in {"new", "raised"}
    /\ lib' = [ ( IF Falsy(api_key)
                    THEN [NewLib EXCEPT !.pc = "raised", !.error = "ValueError"]
                    ELSE IdleLib(api_key, EmptyObject) )
                EXCEPT !.arg = api_key, !.environ = environ_key ]
    /\ UNCHANGED <<program, api_input, store, tracker, req, ui, yx, rx>>

\* TerminologyEvolutionTracker(api_key) with MISTRAL_API_KEY = environ_key:
\* `api_key or os.environ.get(...)`, ValueError when that is empty or None,
\* else the client and the empty evolution_database
TerminologyEvolutionTracker_init(api_key, environ_key) ==
    /\ program = "lib"
    /\ lib.pc \in {"new", "raised"}
    /\ LET key == IF Falsy(api_key) THEN environ_key ELSE api_key
       IN  lib' = [ ( IF Falsy(key)
                        THEN [NewLib EXCEPT !.pc = "raised", !.error = "ValueError"]
                        ELSE IdleLib(key, EmptyObject) )
                    EXCEPT !.arg = api_key, !.environ = environ_key ]
    /\ UNCHANGED <<program, api_input, store, tracker, req, ui, yx, rx>>

\* the fault of returning the record kept for the term, the service not called
analyze_term_evolution_Cached(term, domain) ==
    /\ program = "lib"
    /\ lib.pc = "idle"
    /\ lib' = IF term \in DOMAIN lib.evolution_database
              THEN [lib EXCEPT !.pc = "done", !.term = term, !.domain = domain,
                               !.ret = DictValue(lib.evolution_database[term])]
              ELSE [lib EXCEPT !.pc = "waiting", !.term = term, !.domain = domain,
                               !.calls = 1, !.ret = NoneValue]
    /\ UNCHANGED <<program, api_input, store, tracker, req, ui, yx, rx>>

\* analyze_term_evolution(term, domain) up to its call of client.chat.complete
analyze_term_evolution(term, domain) ==
    /\ program = "lib"
    /\ lib.pc = "idle"
    /\ lib' = [lib EXCEPT !.pc = "waiting", !.term = term, !.domain = domain,
                          !.calls = 1, !.ret = NoneValue]
    /\ UNCHANGED <<program, api_input, store, tracker, req, ui, yx, rx>>

\* client.chat.complete returns or raises; analyze_term_evolution returns
lib_api_responds(outcome) ==
    /\ program = "lib"
    /\ lib.pc = "waiting"
    /\ LET got == analyze_term_evolution_results[outcome, lib.term, lib.domain]
       IN  lib' = [lib EXCEPT
                      !.pc = "done",
                      !.reply = outcome,
                      !.ret = got,
                      !.evolution_database =
                          IF got.found THEN DatabasePut(@, lib.term, got.data) ELSE @]
    /\ UNCHANGED <<program, api_input, store, tracker, req, ui, yx, rx>>

\* the caller takes the value; the next call
lib_return ==
    /\ program = "lib"
    /\ lib.pc = "done"
    /\ lib' = IdleLib(lib.api_key, lib.evolution_database)
    /\ UNCHANGED <<program, api_input, store, tracker, req, ui, yx, rx>>

\* the lists of terms handed to analyze_multiple_terms, and the replies of the
\* service during it
MaxTerms == 2

TermLists == UNION {[1..n -> LibTerms] : n \in 0..MaxTerms}

BatchOutcomes ==
    { ApiRaise, ApiReply("I cannot analyze this term."), ApiReply("{}"),
      ApiReply(json_dumps(WellFormedObject, -1)) }

\* analyze_multiple_terms(terms, domain) up to the call of client.chat.complete
\* for its first term, or to its return for no terms
analyze_multiple_terms(terms, domain) ==
    /\ program = "lib"
    /\ lib.pc = "idle"
    /\ lib' = IF Len(terms) = 0
              THEN [lib EXCEPT !.pc = "batch_done", !.domain = domain,
                               !.batch = [NoBatch EXCEPT !.terms = terms]]
              ELSE [lib EXCEPT !.pc = "batch_waiting", !.term = terms[1],
                               !.domain = domain, !.calls = 1,
                               !.batch = [NoBatch EXCEPT !.terms = terms,
                                                         !.called = <<terms[1]>>]]
    /\ UNCHANGED <<program, api_input, store, tracker, req, ui, yx, rx>>

\* the fault of leaving the loop at the first term that fails
analyze_multiple_terms_responds_StopsOnFailure(outcome) ==
    /\ program = "lib"
    /\ lib.pc = "batch_waiting"
    /\ LET got == analyze_term_evolution_result(outcome, lib.term, lib.domain)
           at == Len(lib.batch.called)
           last == at = Len(lib.batch.terms) \/ ~got.found
           batch == [lib.batch EXCEPT
                        !.replies = Append(@, outcome),
                        !.results = IF got.found THEN Append(@, got) ELSE @,
                        !.called = IF last THEN @ ELSE Append(@, lib.batch.terms[at + 1])]
       IN  lib' = [lib EXCEPT
                      !.pc = IF last THEN "batch_done" ELSE "batch_waiting",
                      !.term = IF last THEN @ ELSE lib.batch.terms[at + 1],
                      !.calls = IF last THEN @ ELSE @ + 1,
                      !.evolution_database =
                          IF got.found THEN DatabasePut(@, lib.term, got.data) ELSE @,
                      !.batch = batch]
    /\ UNCHANGED <<program, api_input, store, tracker, req, ui, yx, rx>>

\* client.chat.complete returns or raises; analyze_term_evolution returns;
\* the loop appends the record if there is one and calls for the next term,
\* or ends
analyze_multiple_terms_responds(outcome) ==
    /\ program = "lib"
    /\ lib.pc = "batch_waiting"
    /\ LET got == analyze_term_evolution_result(outcome, lib.term, lib.domain)
           at == Len(lib.batch.called)
           last == at = Len(lib.batch.terms)
           batch == [lib.batch EXCEPT
                        !.replies = Append(@, outcome),
                        !.results = IF got.found THEN Append(@, got) ELSE @,
                        !.called = IF last THEN @ ELSE Append(@, lib.batch.terms[at + 1])]
       IN  lib' = [lib EXCEPT
                      !.pc = IF last THEN "batch_done" ELSE "batch_waiting",
                      !.term = IF last THEN @ ELSE lib.batch.terms[at + 1],
                      !.calls = IF last THEN @ ELSE @ + 1,
                      !.evolution_database =
                          IF got.found THEN DatabasePut(@, lib.term, got.data) ELSE @,
                      !.batch = batch]
    /\ UNCHANGED <<program, api_input, store, tracker, req, ui, yx, rx>>

\* the caller takes the list; the next call
analyze_multiple_terms_return ==
    /\ program = "lib"
    /\ lib.pc = "batch_done"
    /\ lib' = IdleLib(lib.api_key, lib.evolution_database)
    /\ UNCHANGED <<program, api_input, store, tracker, req, ui, yx, rx>>

-----------------------------------------------------------------------------
(* The harnesses of the pure functions *)

IdleYear == [pc |-> "idle", period_str |-> "", year |-> 0]
IdleRender == [data |-> EmptyObject, results |-> << >>]

\* the period labels: up to MaxLabelTokens pieces put together
MaxLabelTokens == 3

LabelTokens == {"Pre", "-", "1300", "19", "s", " ", "Present", "BCE", "5th"}

RECURSIVE LabelsOf(_)
LabelsOf(n) ==
    IF n = 0 THEN {""}
    ELSE LabelsOf(n - 1) \cup {l \o t : l \in LabelsOf(n - 1), t \in LabelTokens}

Labels == LabelsOf(MaxLabelTokens)

\* year = extract_year(period_str)
extract_year_call ==
    /\ yx.pc = "called"
    /\ yx' = [yx EXCEPT !.pc = "done", !.year = extract_year(yx.period_str)]
    /\ UNCHANGED <<program, api_input, store, tracker, req, ui, lib, rx>>

\* the records handed to the renderers: the demo entries, the objects of the
\* text-generation service, and records of up to MaxSnapshots snapshots
MaxSnapshots == 2

FrequencyValues ==
    { "high", "medium", "low", "rare", "HIGH", "Medium", "rAre", "Low",
      "seldom", "", "high " }

SnapshotVariants ==
    {[period |-> "1990s", frequency |-> f] : f \in FrequencyValues}
    \cup {[period |-> "1990s"]}

SnapshotRecords ==
    { [term |-> "quantum", snapshots |-> s] :
          s \in UNION {[1..n -> SnapshotVariants] : n \in 0..MaxSnapshots} }

DemoRecords == {DEMO_DATA[k] : k \in DOMAIN DEMO_DATA}

\* each renderer called on its own: what it returns, or that it raises
RenderEach(data) ==
    [ report |-> IF format_report_raises(data) THEN "" ELSE format_report(data),
      timeline |-> IF create_timeline_chart_raises(data) THEN EmptyFigure
                   ELSE create_timeline_chart(data),
      status_pie |-> create_status_pie(data),
      freq_chart |-> IF create_frequency_chart_raises(data) THEN EmptyFigure
                     ELSE create_frequency_chart(data),
      sankey |-> IF create_shift_sankey_raises(data) THEN EmptyFigure
                 ELSE create_shift_sankey(data),
      raised |-> { name \in {"report", "timeline", "freq_chart", "sankey"} :
                      \/ name = "report" /\ format_report_raises(data)
                      \/ name = "timeline" /\ create_timeline_chart_raises(data)
                      \/ name = "freq_chart" /\ create_frequency_chart_raises(data)
                      \/ name = "sankey" /\ create_shift_sankey_raises(data) } ]

\* records with fields absent: the fields of the record, of its snapshots and
\* of its shifts; up to MaxAbsent of them absent, or all but up to MaxAbsent
MaxAbsent == 2

FieldPaths ==
    {<<"record", k>> : k \in DOMAIN WellFormedObject}
    \cup {<<"snapshot", k>> : k \in DOMAIN WellFormedObject.snapshots[1]}
    \cup {<<"shift", k>> : k \in DOMAIN WellFormedObject.semantic_shifts[1]}

Without(d, keys) == [k \in DOMAIN d \ keys |-> d[k]]

PartialRecord(absent) ==
    LET keysOf(level) == {p[2] : p \in {q \in absent : q[1] = level}}
        each(l, keys) == [i \in 1..Len(l) |-> Without(l[i], keys)]
        kept == Without(WellFormedObject, keysOf("record"))
    IN  [ k \in DOMAIN kept |->
              IF k = "snapshots" THEN each(kept[k], keysOf("snapshot"))
              ELSE IF k = "semantic_shifts" THEN each(kept[k], keysOf("shift"))
              ELSE kept[k] ]

RECURSIVE PathSetsUpTo(_)
PathSetsUpTo(n) ==
    IF n = 0 THEN {{}}
    ELSE PathSetsUpTo(n - 1) \cup {a \cup {p} : a \in PathSetsUpTo(n - 1), p \in FieldPaths}

AbsentSets ==
    PathSetsUpTo(MaxAbsent) \cup {FieldPaths \ a : a \in PathSetsUpTo(MaxAbsent)}

PartialRecords == {PartialRecord(a) : a \in AbsentSets}

\* how many times the harness renders its record
MaxRenders == 2

\* the five renderers called on the record; `configured` notes whether the
\* global tracker was set at the time
render_call ==
    /\ Len(rx.results) < MaxRenders
    /\ rx' = [rx EXCEPT !.results =
                  Append(@, [configured |-> tracker.is_set, out |-> RenderEach(rx.data)])]
    /\ UNCHANGED <<program, api_input, store, tracker, req, ui, lib, yx>>

\* create_frequency_chart called on the record: the figure, or that it raised
frequency_chart_call ==
    /\ Len(rx.results) = 0
    /\ rx' = [rx EXCEPT !.results =
                  << [ raised |-> create_frequency_chart_raises(rx.data),
                       fig |-> IF create_frequency_chart_raises(rx.data) THEN EmptyFigure
                               ELSE create_frequency_chart(rx.data) ] >>]
    /\ UNCHANGED <<program, api_input, store, tracker, req, ui, lib, yx>>

\* records of up to MaxShifts shifts whose meanings are absent, null, short,
\* of MeaningPrefixLen characters, or longer with the same first characters
MaxShifts == 2

MeaningValues ==
    { "amount", "a discrete amount of an energy", "a discrete amount of an energy, in physics",
      "a discrete amount of an energy of light", JsonNull }

ShiftVariants ==
    {[shift_type |-> "narrowing", meaning_before |-> b, meaning_after |-> a] :
         b \in MeaningValues, a \in MeaningValues}
    \cup {[shift_type |-> "narrowing", meaning_before |-> b] : b \in MeaningValues}
    \cup {[shift_type |-> "Metaphor", meaning_after |-> a] : a \in MeaningValues}
    \cup {[period_from |-> "1900s"]}

ShiftRecords ==
    { [term |-> "quantum", semantic_shifts |-> s] :
          s \in UNION {[1..n -> ShiftVariants] : n \in 0..MaxShifts} }

\* records of up to MaxSnapshots snapshots whose status is absent, null, a
\* tier in either case, or another text; and a record with no snapshots field
StatusValues ==
    { "established", "Established", "evolving", "deprecated", "unknown", "Unknown",
      "obsolete", "", JsonNull }

StatusVariants ==
    {[period |-> "1990s", status |-> v] : v \in StatusValues} \cup {[period |-> "1990s"]}

StatusRecords ==
    { [term |-> "quantum", snapshots |-> l] :
          l \in UNION {[1..n -> StatusVariants] : n \in 0..MaxSnapshots} }
    \cup {TermOnlyObject}

\* create_status_pie called on the record
status_pie_call ==
    /\ Len(rx.results) = 0
    /\ rx' = [rx EXCEPT !.results =
                  << [raised |-> FALSE, fig |-> create_status_pie(rx.data)] >>]
    /\ UNCHANGED <<program, api_input, store, tracker, req, ui, lib, yx>>

\* replies of the service: a JSON text or none, with words, or braces, before
\* and after it
ReplyPrefixes == {"", "Here is the analysis:\n", "} ", "{note} "}

ReplyBodies ==
    UNION {JsonTexts[d] : d \in ProducerObjects}
    \cup {"I cannot analyze this term.", "{not json}", ""}

ReplySuffixes == {"", "\nDone.", " }", " {"}

ParseReplies ==
    {ApiRaise}
    \cup {ApiReply(p \o b \o e) : p \in ReplyPrefixes, b \in ReplyBodies, e \in ReplySuffixes}

\* the reply handed to both producers: what each returns
parse_call ==
    /\ Len(rx.results) = 0
    /\ rx' = [rx EXCEPT !.results =
                  << [ app |-> SimpleTermTracker_analyze_term(rx.data),
                       lib |-> analyze_term_evolution_result(rx.data, "AI", "general") ] >>]
    /\ UNCHANGED <<program, api_input, store, tracker, req, ui, lib, yx>>

\* records of up to MaxSnapshots snapshots with years absent, BCE, or ending
\* before they start, and of up to MaxShifts shifts
YearValues == {-563, 2000}

YearVariants ==
    {[period |-> "then", year_start |-> a, year_end |-> b] :
         a \in YearValues, b \in YearValues}
    \cup {[period |-> "from", year_start |-> a] : a \in YearValues}
    \cup {[period |-> "until", year_end |-> b] : b \in YearValues}
    \cup {[period |-> "undated"]}

TimelineShiftVariants ==
    { [shift_type |-> "Narrowing", period_from |-> "1640", period_to |-> "1950s"],
      [shift_type |-> "metaphor"] }

TimelineRecords ==
    { [term |-> "quantum", snapshots |-> s, semantic_shifts |-> t] :
          s \in UNION {[1..n -> YearVariants] : n \in 0..MaxSnapshots},
          t \in UNION {[1..n -> TimelineShiftVariants] : n \in 0..MaxShifts} }

\* create_timeline_chart called on the record: the figure, or that it raised
timeline_chart_call ==
    /\ Len(rx.results) = 0
    /\ rx' = [rx EXCEPT !.results =
                  << [ raised |-> create_timeline_chart_raises(rx.data),
                       fig |-> IF create_timeline_chart_raises(rx.data) THEN EmptyFigure
                               ELSE create_timeline_chart(rx.data) ] >>]
    /\ UNCHANGED <<program, api_input, store, tracker, req, ui, lib, yx>>

\* create_shift_sankey called on the record: the figure, or that it raised
shift_sankey_call ==
    /\ Len(rx.results) = 0
    /\ rx' = [rx EXCEPT !.results =
                  << [ raised |-> create_shift_sankey_raises(rx.data),
                       fig |-> IF create_shift_sankey_raises(rx.data) THEN EmptyFigure
                               ELSE create_shift_sankey(rx.data) ] >>]
    /\ UNCHANGED <<program, api_input, store, tracker, req, ui, lib, yx>>

-----------------------------------------------------------------------------
(* The specification of the two programs *)

InitialStatus == "# Demo data available for: buddha, computer, virus, cloud, mouse"

Init ==
    /\ program \in {"app", "lib"}
    /\ store = DEMO_DATA
    /\ tracker = NoTracker
    /\ req = IdleRequest
    /\ ui = InitialStatus
    /\ api_input = ""
    /\ lib = NewLib
    /\ yx = IdleYear
    /\ rx = IdleRender

Next ==
    \/ \E api_key \in ApiKeys : initialize_tracker(api_key)
    \/ \E term \in Terms, domain \in Domains : analyze_term(term, domain)
    \/ analyze_term_check_tracker
    \/ analyze_term_check_client
    \/ analyze_term_invoke
    \/ \E outcome \in ApiOutcomes : api_responds(outcome)
    \/ analyze_term_return
    \/ \E api_key \in KeyArguments, environ_key \in EnvironKeys :
           TerminologyEvolutionTracker_init(api_key, environ_key)
    \/ \E term \in LibTerms, domain \in Domains : analyze_term_evolution(term, domain)
    \/ \E outcome \in ApiOutcomes : lib_api_responds(outcome)
    \/ lib_return

Spec == Init /\ [][Next]_vars

\* the handler runs on its thread to its end: each of its steps is taken once
\* it can be, and client.chat.complete comes back with a reply or an error
SpecLive ==
    /\ Spec
    /\ WF_vars(analyze_term_check_tracker)
    /\ WF_vars(analyze_term_check_client)
    /\ WF_vars(analyze_term_invoke)
    /\ WF_vars(\E outcome \in ApiOutcomes : api_responds(outcome))

\* Set Key served with no request under way: one handler runs to its end
\* before the next event is taken
initialize_tracker_serial(api_key) ==
    /\ req.pc = "idle"
    /\ initialize_tracker(api_key)

NextSerial ==
    \/ \E api_key \in ApiKeys : initialize_tracker_serial(api_key)
    \/ \E term \in Terms, domain \in Domains : analyze_term(term, domain)
    \/ analyze_term_check_tracker
    \/ analyze_term_check_client
    \/ analyze_term_invoke
    \/ \E outcome \in ApiOutcomes : api_responds(outcome)
    \/ analyze_term_return

InitSerial == Init /\ program = "app"

SpecSerial == InitSerial /\ [][NextSerial]_vars

-----------------------------------------------------------------------------
(* The specifications of the harnesses *)

InitYear ==
    /\ program = "app"
    /\ store = DEMO_DATA
    /\ tracker = NoTracker
    /\ req = IdleRequest
    /\ ui = InitialStatus
    /\ api_input = ""
    /\ lib = NewLib
    /\ yx \in {[pc |-> "called", period_str |-> l, year |-> 0] : l \in Labels}
    /\ rx = IdleRender

NextYear == extract_year_call

SpecYear == InitYear /\ [][NextYear]_vars

InitRender ==
    /\ program = "app"
    /\ store = DEMO_DATA
    /\ tracker = NoTracker
    /\ req = IdleRequest
    /\ ui = InitialStatus
    /\ api_input = ""
    /\ lib = NewLib
    /\ yx = IdleYear
    /\ rx \in {[data |-> d, results |-> << >>] : d \in DemoRecords \cup ProducerObjects}

NextRender ==
    \/ render_call
    \/ \E api_key \in ApiKeys : initialize_tracker(api_key)

SpecRender == InitRender /\ [][NextRender]_vars

InitAbsent ==
    /\ program = "app"
    /\ store = DEMO_DATA
    /\ tracker = NoTracker
    /\ req = IdleRequest
    /\ ui = InitialStatus
    /\ api_input = ""
    /\ lib = NewLib
    /\ yx = IdleYear
    /\ rx \in {[data |-> d, results |-> << >>] : d \in PartialRecords}

\* one call of each renderer on the record
NextAbsent == Len(rx.results) = 0 /\ render_call

SpecAbsent == InitAbsent /\ [][NextAbsent]_vars

InitFreq ==
    /\ program = "app"
    /\ store = DEMO_DATA
    /\ tracker = NoTracker
    /\ req = IdleRequest
    /\ ui = InitialStatus
    /\ api_input = ""
    /\ lib = NewLib
    /\ yx = IdleYear
    /\ rx \in {[data |-> d, results |-> << >>] : d \in SnapshotRecords}

NextFreq == frequency_chart_call

SpecFreq == InitFreq /\ [][NextFreq]_vars

InitFlow ==
    /\ program = "app"
    /\ store = DEMO_DATA
    /\ tracker = NoTracker
    /\ req = IdleRequest
    /\ ui = InitialStatus
    /\ api_input = ""
    /\ lib = NewLib
    /\ yx = IdleYear
    /\ rx \in {[data |-> d, results |-> << >>] : d \in ShiftRecords}

NextFlow == shift_sankey_call

SpecFlow == InitFlow /\ [][NextFlow]_vars

InitTimeline ==
    /\ program = "app"
    /\ store = DEMO_DATA
    /\ tracker = NoTracker
    /\ req = IdleRequest
    /\ ui = InitialStatus
    /\ api_input = ""
    /\ lib = NewLib
    /\ yx = IdleYear
    /\ rx \in {[data |-> d, results |-> << >>] : d \in TimelineRecords}

NextTimeline == timeline_chart_call

SpecTimeline == InitTimeline /\ [][NextTimeline]_vars

InitParse ==
    /\ program \in {"app", "lib"}
    /\ store = DEMO_DATA
    /\ tracker = NoTracker
    /\ req = IdleRequest
    /\ ui = InitialStatus
    /\ api_input = ""
    /\ lib = NewLib
    /\ yx = IdleYear
    /\ rx \in {[data |-> o, results |-> << >>] : o \in ParseReplies}

NextParse == parse_call

SpecParse == InitParse /\ [][NextParse]_vars

InitPie ==
    /\ program = "app"
    /\ store = DEMO_DATA
    /\ tracker = NoTracker
    /\ req = IdleRequest
    /\ ui = InitialStatus
    /\ api_input = ""
    /\ lib = NewLib
    /\ yx = IdleYear
    /\ rx \in {[data |-> d, results |-> << >>] : d \in StatusRecords}

NextPie == status_pie_call

SpecPie == InitPie /\ [][NextPie]_vars

\* one tracker of the module and its analyze_multiple_terms calls
InitBatch ==
    /\ program = "lib"
    /\ store = DEMO_DATA
    /\ tracker = NoTracker
    /\ req = IdleRequest
    /\ ui = InitialStatus
    /\ api_input = ""
    /\ lib = IdleLib("sk-arg", EmptyObject)
    /\ yx = IdleYear
    /\ rx = IdleRender

NextBatch ==
    \/ \E terms \in TermLists, domain \in Domains : analyze_multiple_terms(terms, domain)
    \/ \E outcome \in BatchOutcomes : analyze_multiple_terms_responds(outcome)
    \/ analyze_multiple_terms_return

SpecBatch == InitBatch /\ [][NextBatch]_vars

-----------------------------------------------------------------------------
(* The properties *)

\* the query is key k with whitespace around it and letters in either case,
\* read off the characters of the query
QueryNames(term, k) ==
    \E i \in 1..Len(term) :
        /\ i + Len(k) - 1 <= Len(term)
        /\ \A j \in 1..Len(term) :
              IF j >= i /\ j < i + Len(k)
              THEN LowerChar(Char(term, j)) = Char(k, j - i + 1)
              ELSE Char(term, j) \in Whitespace

InStore(term) == \E k \in DOMAIN DEMO_DATA : QueryNames(term, k)

AllWhitespace(term) == \A i \in 1..Len(term) : Char(term, i) \in Whitespace

Unconfigured == ~tracker.is_set \/ ~tracker.client

\* C1: a finished request whose query is a store key k in any letter case,
\* with or without whitespace around it, returned the report, the four charts
\* and the serialized record of DEMO_DATA[k], of no other entry, and called
\* no service.
C1_StoreLookup ==
    \A k \in DOMAIN DEMO_DATA :
        (program = "app" /\ req.pc = "done" /\ QueryNames(req.term, k)) =>
            /\ req.data = DEMO_DATA[k]
            /\ req.result =
                   Returned(format_report(DEMO_DATA[k]), create_timeline_chart(DEMO_DATA[k]),
                            create_status_pie(DEMO_DATA[k]), create_frequency_chart(DEMO_DATA[k]),
                            create_shift_sankey(DEMO_DATA[k]), json_dumps(DEMO_DATA[k], 2))
            /\ \A other \in DOMAIN DEMO_DATA \ {k} : req.data # DEMO_DATA[other]

C1_Witness ==
    /\ req.pc = "done"
    /\ req.term = " Buddha\n"
    /\ req.data = DEMO_DATA.buddha
    /\ req.result.status = "returned"

\* C2: a request is past the store lookup, and has missed, whenever it is on
\* its way to the service, has invoked the tracker or has made a call; a
\* request for a store term never invokes the tracker and never calls.
C2_StoreBeforeProducer ==
    program = "app" =>
        /\ ( \/ req.pc \in {"check_tracker", "check_client", "call", "waiting"}
             \/ req.invoked
             \/ req.calls > 0 ) => (req.store_checked /\ ~InStore(req.term))
        /\ (req.pc # "idle" /\ InStore(req.term)) => (~req.invoked /\ req.calls = 0)

C2_Witness ==
    /\ req.pc = "done"
    /\ InStore(req.term)
    /\ req.store_checked
    /\ tracker.is_set /\ tracker.client
    /\ ~req.invoked /\ req.calls = 0

\* C3: every step a request for a non-blank term absent from the store takes
\* while no service is configured (tracker unset, or its client None) makes no
\* call and raises nothing: it moves on to the test of the client or ends,
\* from the test of the client on it ends, and it ends with the "no data"
\* result.
C3_NoServiceNoData ==
    [][ ( /\ program = "app"
          /\ req.pc \in {"check_tracker", "check_client", "call"}
          /\ Unconfigured
          /\ req' # req )
        => ( /\ ~AllWhitespace(req.term) /\ ~InStore(req.term)
             /\ req'.calls = 0
             /\ req'.pc \in {"check_client", "done"}
             /\ (req.pc # "check_tracker" => req'.pc = "done")
             /\ (req'.pc = "done" => req'.result = NoDataResult(req.term)) ) ]_vars

C3_Witness ==
    /\ req.pc = "done"
    /\ req.term = "xyzzynotaterm"
    /\ ~tracker.is_set
    /\ req.calls = 0
    /\ req.result = NoDataResult("xyzzynotaterm")

\* C4: a request that called the service has returned normally, whatever came
\* back, and with the "no data" result when the call brought no record.
C4_NoFailureFatal ==
    (program = "app" /\ req.pc = "done" /\ req.calls > 0) =>
        /\ req.result.status = "returned"
        /\ (req.data = EmptyObject => req.result = NoDataResult(req.term))

\* C5: a finished request for an empty or whitespace-only term returned the
\* validation message, four empty charts and an empty serialized record,
\* looked nothing up and invoked nothing; it changed neither the tracker, the
\* status box nor the library; and what follows it is the idle handler, from
\* which every request starts.
C5_BlankRejected ==
    /\ [] ( (program = "app" /\ req.pc = "done" /\ AllWhitespace(req.term)) =>
               /\ req.result =
                      Returned("# Please enter a term. #", EmptyFigure, EmptyFigure,
                               EmptyFigure, EmptyFigure, "")
               /\ req.data = EmptyObject
               /\ ~req.store_checked /\ ~req.invoked /\ req.calls = 0 )
    /\ [][ (program = "app" /\ req.pc = "idle" /\ req' # req /\ AllWhitespace(req'.term))
           => (req'.pc = "done" /\ tracker' = tracker /\ ui' = ui /\ lib' = lib) ]_vars
    /\ [][ (program = "app" /\ req.pc = "done" /\ AllWhitespace(req.term) /\ req' # req)
           => req' = IdleRequest ]_vars

C5_Witness ==
    /\ req.pc = "done"
    /\ req.term = " \t"
    /\ req.result = ValidationResult
    /\ tracker.is_set /\ tracker.client

\* C6: a request of the app and a call of analyze_term_evolution have made at
\* most one call of the text-generation service.
C6_NoRetries ==
    /\ req.calls <= 1
    /\ lib.calls <= 1

C6_Witness ==
    /\ req.pc = "done"
    /\ req.calls = 1
    /\ req.data = EmptyObject
    /\ req.result = NoDataResult(req.term)

\* the numbers of 3 or 4 digits of a label: where a run of digits starts and
\* ends
DigitRun(s, i, j) ==
    /\ i <= j
    /\ \A n \in i..j : Char(s, n) \in Digits
    /\ (i = 1 \/ Char(s, i - 1) \notin Digits)
    /\ (j = Len(s) \/ Char(s, j + 1) \notin Digits)

YearNumbers(s) ==
    {r \in (1..Len(s)) \X (1..Len(s)) : r[2] - r[1] \in {2, 3} /\ DigitRun(s, r[1], r[2])}

FirstYearNumber(s) ==
    LET r == CHOOSE r \in YearNumbers(s) : \A q \in YearNumbers(s) : r[1] <= q[1]
    IN  NatOfDigits(SubSeq(s, r[1], r[2]))

\* C7: extract_year of a label that holds a number of 3 or 4 digits is the
\* first such number, whatever stands around it.
C7_YearNumber ==
    (yx.pc = "done" /\ YearNumbers(yx.period_str) # {}) =>
        yx.year = FirstYearNumber(yx.period_str)

\* the keys of the keyword table in the order they are tried
KeywordOrder ==
    << "pre-1900", "1900", "1950", "1980", "2000", "2010", "2020", "present", "bce" >>

KeywordValue(key) ==
    LET i == CHOOSE i \in 1..Len(mappings) : mappings[i][1] = key
    IN  mappings[i][2]

ContainsFolded(label, key) ==
    \E i \in 1..(Len(label) - Len(key) + 1) :
        \A j \in 1..Len(key) : LowerChar(Char(label, i + j - 1)) = Char(key, j)

\* C8: extract_year of a label without digits is the value of the first key
\* of the table, in its order, that the lower-cased label contains, and 2000
\* when it contains none.
C8_KeywordTable ==
    (yx.pc = "done" /\ \A i \in 1..Len(yx.period_str) : Char(yx.period_str, i) \notin Digits) =>
        LET found == {i \in 1..Len(KeywordOrder) : ContainsFolded(yx.period_str, KeywordOrder[i])}
        IN  /\ Len(mappings) = Len(KeywordOrder)
            /\ \A i \in 1..Len(KeywordOrder) : mappings[i][1] = KeywordOrder[i]
            /\ yx.year = IF found = {} THEN 2000
                         ELSE KeywordValue(KeywordOrder[SetMin(found)])

C8_Witness ==
    /\ yx.pc = "done"
    /\ yx.period_str = "Present BCE"
    /\ yx.year = 2023

\* the level the claim gives a frequency value
TierLevel(snap) ==
    IF "frequency" \notin DOMAIN snap THEN 3
    ELSE LET f == snap.frequency
             is(word) == Len(f) = Len(word)
                         /\ \A i \in 1..Len(f) : LowerChar(Char(f, i)) = Char(word, i)
         IN  IF is("high") THEN 4
             ELSE IF is("medium") THEN 3
             ELSE IF is("low") THEN 2
             ELSE IF is("rare") THEN 1
             ELSE 2

\* C10: create_frequency_chart of a record whose snapshots give their
\* frequency as any text, or not at all, does not raise, and the line has one
\* level per snapshot, in 1..4: high 4, medium 3, low 2, rare 1 in any letter
\* case, any other text 2, no frequency 3.
C10_FrequencyTotal ==
    Len(rx.results) = 1 =>
        /\ ~rx.results[1].raised
        /\ Len(rx.results[1].fig.traces) = 1
        /\ LET y == rx.results[1].fig.traces[1].y
               snapshots == rx.data.snapshots
           IN  /\ Len(y) = Len(snapshots)
               /\ \A i \in 1..Len(y) : y[i] \in 1..4 /\ y[i] = TierLevel(snapshots[i])

C10_Witness ==
    /\ Len(rx.results) = 1
    /\ rx.data.snapshots =
           << [period |-> "1990s", frequency |-> "rAre"], [period |-> "1990s"] >>
    /\ rx.results[1].fig.traces[1].y = <<1, 3>>

\* the lines of a text: <<start, line>> for every line, split at "\n"
TextLines(text) ==
    LET breaks == {i \in 1..Len(text) : Char(text, i) = "\n"}
        starts == {1} \cup {i + 1 : i \in breaks}
        stop(b) == IF \E n \in breaks : n >= b
                   THEN SetMin({n \in breaks : n >= b}) - 1
                   ELSE Len(text)
    IN  {<<b, SubSeq(text, b, stop(b))>> : b \in starts}

LineStart(text, line) == SetMin({l[1] : l \in {m \in TextLines(text) : m[2] = line}})

HasLine(text, line) == \E l \in TextLines(text) : l[2] = line

\* a numbered entry: the bracket, a number, the bracket, a blank
NumberedLine(line) ==
    /\ Len(line) >= 4
    /\ Char(line, 1) = "#"
    /\ Char(line, 2) \in Digits
    /\ \E j \in 3..Len(line) - 1 :
          /\ \A n \in 2..(j - 1) : Char(line, n) \in Digits
          /\ Char(line, j) = "#"
          /\ Char(line, j + 1) = " "

\* the numbered entries between the HISTORICAL SNAPSHOTS heading and the
\* SEMANTIC SHIFTS heading, in the order of the text
SnapshotEntries(report) ==
    LET from == LineStart(report, "# HISTORICAL SNAPSHOTS #")
        to == LineStart(report, "# SEMANTIC SHIFTS #")
        found == {l \in TextLines(report) : l[1] > from /\ l[1] < to /\ NumberedLine(l[2])}
        before(l) == Cardinality({m \in found : m[1] < l[1]})
    IN  [i \in 1..Cardinality(found) |-> (CHOOSE l \in found : before(l) = i - 1)[2]]

BuddhaDone == program = "app" /\ req.pc = "done" /\ QueryNames(req.term, "buddha")

SixSnapshotEntries(report) ==
    /\ HasLine(report, "# HISTORICAL SNAPSHOTS #")
    /\ HasLine(report, "# SEMANTIC SHIFTS #")
    /\ Len(DEMO_DATA.buddha.snapshots) = 6
    /\ SnapshotEntries(report) =
           [i \in 1..6 |-> "#" \o ToString(i) \o "# " \o DEMO_DATA.buddha.snapshots[i].period]

\* C11 as claimed: the report of "buddha" has the line
\* "Domain #: religion / philosophy" and exactly six numbered snapshot
\* entries, 1 to 6, in the order of the stored snapshots.
C11_BuddhaReport_AsClaimed ==
    BuddhaDone =>
        /\ HasLine(req.result.report, "Domain #: religion / philosophy")
        /\ SixSnapshotEntries(req.result.report)

\* C11: the report of "buddha" has the line made of the tag emoji, two blanks
\* and "Domain #: religion / philosophy", and exactly six numbered snapshot
\* entries, 1 to 6, each with the period of the stored snapshot of that rank.
C11_BuddhaReport ==
    BuddhaDone =>
        /\ HasLine(req.result.report, "#  Domain #: religion / philosophy")
        /\ ~HasLine(req.result.report, "Domain #: religion / philosophy")
        /\ SixSnapshotEntries(req.result.report)

C11_Witness ==
    /\ BuddhaDone
    /\ req.term = "buddha"
    /\ Len(SnapshotEntries(req.result.report)) = 6
    /\ SnapshotEntries(req.result.report)[6] = "#6# 2000-Present"

\* a request for a term that is neither blank nor in the store has ended
\* without a call of the service
MissWithoutService ==
    /\ program = "app"
    /\ req.pc = "done"
    /\ ~AllWhitespace(req.term)
    /\ ~InStore(req.term)
    /\ req.calls = 0

MissMessage(term) ==
    "# No data for '" \o term \o "'. Try demo terms: buddha, computer, virus, cloud, mouse"
    \o "\n\nOr set your API key to analyze custom terms."

NoContent(figure) ==
    /\ Len(figure.annotations) = 0
    /\ Len(figure.traces) = 0
    /\ figure.title = ""

\* C12 as claimed: the output for a term absent from the store, no service
\* configured, is the miss message, four charts without any content and an
\* empty serialized record.
C12_MissOutput_AsClaimed ==
    MissWithoutService =>
        /\ req.result.status = "returned"
        /\ req.result.report = MissMessage(req.term)
        /\ NoContent(req.result.timeline)
        /\ NoContent(req.result.status_pie)
        /\ NoContent(req.result.freq_chart)
        /\ NoContent(req.result.sankey)
        /\ req.result.json_out = ""

\* C12: the output for a term absent from the store, no service configured,
\* is the miss message, a timeline whose only content is the annotation
\* "No data for '<term>'", three charts without any content and an empty
\* serialized record.
C12_MissOutput ==
    MissWithoutService =>
        /\ req.result.status = "returned"
        /\ req.result.report = MissMessage(req.term)
        /\ req.result.timeline.annotations = << "No data for '" \o req.term \o "'" >>
        /\ Len(req.result.timeline.traces) = 0
        /\ req.result.timeline.title = ""
        /\ NoContent(req.result.status_pie)
        /\ NoContent(req.result.freq_chart)
        /\ NoContent(req.result.sankey)
        /\ req.result.json_out = ""

C12_Witness ==
    /\ MissWithoutService
    /\ ~tracker.is_set
    /\ req.term = "xyzzynotaterm"
    /\ req.result.timeline.annotations = << "No data for 'xyzzynotaterm'" >>

\* what a renderer shows for a field: the value, or the default when absent
Shown(d, key, default) == IF key \in DOMAIN d THEN d[key] ELSE default

Placeholder(figure, text) ==
    figure.annotations = <<text>> /\ Len(figure.traces) = 0

ReportDefaults(d, report) ==
    IF d = EmptyObject THEN report = "No data available"
    ELSE /\ HasLine(report, "# Term #: " \o Shown(d, "term", "N/A"))
         /\ HasLine(report, "#  Domain #: " \o Shown(d, "domain", "N/A"))
         /\ HasLine(report, "# Origin #: " \o Shown(d, "origin_period", "N/A")
                               \o " (" \o Shown(d, "origin_language", "N/A") \o ")")
         /\ HasLine(report, "   EN: " \o Shown(d, "etymology", "N/A"))
         /\ HasLine(report, "Current: " \o Shown(d, "current_status", "N/A"))
         /\ HasLine(report, "Prediction: " \o Shown(d, "future_prediction", "N/A"))
         /\ LET snapshots == Shown(d, "snapshots", << >>)
            IN  SnapshotEntries(report) =
                    [i \in 1..Len(snapshots) |->
                        "#" \o ToString(i) \o "# " \o Shown(snapshots[i], "period", "N/A")]
         /\ \A i \in 1..Len(Shown(d, "snapshots", << >>)) :
                HasLine(report,
                        "    Status: " \o Shown(d.snapshots[i], "status", "N/A")
                        \o " | Frequency: " \o Shown(d.snapshots[i], "frequency", "N/A"))
         /\ \A i \in 1..Len(Shown(d, "semantic_shifts", << >>)) :
                /\ HasLine(report,
                           "    Before: " \o Shown(d.semantic_shifts[i], "meaning_before", "N/A"))
                /\ HasLine(report,
                           "    #: " \o Shown(d.semantic_shifts[i], "explanation_zh",
                                              Shown(d.semantic_shifts[i], "explanation", "N/A")))

TimelineDefaults(d, timeline) ==
    IF "snapshots" \notin DOMAIN d THEN Placeholder(timeline, "No data available")
    ELSE /\ Len(timeline.traces) = 2 * Len(d.snapshots) + Len(Shown(d, "semantic_shifts", << >>))
         /\ timeline.title = "# Evolution Timeline: " \o Shown(d, "term", "Term")
         /\ \A i \in 1..Len(d.snapshots) :
                LET snap == d.snapshots[i]
                    bar == timeline.traces[2 * i - 1]
                    marker == timeline.traces[2 * i]
                IN  /\ bar.x_twice = << 2 * Shown(snap, "year_start", 1900),
                                        2 * Shown(snap, "year_end", 2000) >>
                    /\ marker.x_twice = << Shown(snap, "year_start", 1900)
                                           + Shown(snap, "year_end", 2000) >>
                    /\ "status" \notin DOMAIN snap => bar.color = status_colors.established
                    /\ "frequency" \notin DOMAIN snap => marker.size = freq_sizes.medium
                    /\ marker.text = <<Shown(snap, "period", "")>>
         /\ \A i \in 1..Len(Shown(d, "semantic_shifts", << >>)) :
                LET shift == d.semantic_shifts[i]
                    arrow == timeline.traces[2 * Len(d.snapshots) + i]
                IN  /\ "shift_type" \notin DOMAIN shift =>
                           arrow.color = "#6b7280" /\ arrow.text = <<"", "">>
                    /\ "period_from" \notin DOMAIN shift => arrow.x_twice[1] = 2 * 1900
                    /\ "period_to" \notin DOMAIN shift => arrow.x_twice[2] = 2 * 2000

StatusPieDefaults(d, status_pie) ==
    IF "snapshots" \notin DOMAIN d THEN Placeholder(status_pie, "No data")
    ELSE /\ Len(status_pie.traces) = 1
         /\ \A i \in 1..Len(d.snapshots) :
                \E j \in 1..Len(status_pie.traces[1].labels) :
                    status_pie.traces[1].labels[j] = Shown(d.snapshots[i], "status", "unknown")

FrequencyDefaults(d, freq_chart) ==
    IF "snapshots" \notin DOMAIN d THEN Placeholder(freq_chart, "No data")
    ELSE /\ Len(freq_chart.traces) = 1
         /\ freq_chart.traces[1].x =
                [i \in 1..Len(d.snapshots) |-> Shown(d.snapshots[i], "period", "")]
         /\ \A i \in 1..Len(d.snapshots) :
                freq_chart.traces[1].y[i] = TierLevel(d.snapshots[i])

SankeyDefaults(d, sankey) ==
    IF "semantic_shifts" \notin DOMAIN d THEN Placeholder(sankey, "No semantic shifts found")
    ELSE /\ Len(sankey.traces) = 1
         /\ sankey.title = "# Semantic Shift Flow: " \o Shown(d, "term", "Term")
         /\ \A i \in 1..Len(d.semantic_shifts) :
                LET shift == d.semantic_shifts[i]
                    flow == sankey.traces[1]
                IN  /\ flow.label[flow.source[i] + 1] = Shown(shift, "meaning_before", "Unknown")
                    /\ flow.label[flow.target[i] + 1] = Shown(shift, "meaning_after", "Unknown")
                    /\ "shift_type" \notin DOMAIN shift =>
                           flow.color[i] = "rgba(128,128,128,0.5)"

\* C13: for a record with any fields absent (of the record, of its
\* snapshots, of its shifts, the two sequences included), none of the five
\* renderers raises, and each output shows the default in the place of every
\* absent field: N/A in the report, the placeholder figure for an absent
\* sequence, 1900 and 2000 for the years, established and medium for the
\* timeline colour and size, unknown in the status chart, level 3 in the
\* frequency line, Unknown and grey in the flow diagram.
C13_AbsentFieldsDefault ==
    \A i \in 1..Len(rx.results) :
        LET out == rx.results[i].out
        IN  /\ out.raised = {}
            /\ ReportDefaults(rx.data, out.report)
            /\ TimelineDefaults(rx.data, out.timeline)
            /\ StatusPieDefaults(rx.data, out.status_pie)
            /\ FrequencyDefaults(rx.data, out.freq_chart)
            /\ SankeyDefaults(rx.data, out.sankey)

C13_Witness ==
    /\ Len(rx.results) = 1
    /\ DOMAIN rx.data = {"snapshots"}
    /\ DOMAIN rx.data.snapshots[1] = {"year_end"}
    /\ rx.results[1].out.raised = {}
    /\ HasLine(rx.results[1].out.report, "# Term #: N/A")
    /\ rx.results[1].out.freq_chart.traces[1].y = <<3, 3>>

\* the value a lookup table gives a field matched without regard to letter
\* case, the fallback when the table does not have it
TierOf(table, value, fallback) ==
    IF str_lower(value) \in DOMAIN table THEN table[str_lower(value)] ELSE fallback

\* C14: in every renderer a status, a frequency and a shift type are looked up
\* in their table without regard to letter case, an unrecognized value gives
\* the fallback of the table, and two values that differ in letter case only
\* are one tier: the timeline colour and marker size, the colours and the
\* slices of the status chart, the frequency level, the colour of a flow link.
C14_EnumCaseInsensitive ==
    \A r \in 1..Len(rx.results) :
        LET out == rx.results[r].out
            snapshots == Shown(rx.data, "snapshots", << >>)
            shifts == Shown(rx.data, "semantic_shifts", << >>)
        IN  out.raised = {} =>
              /\ \A i \in 1..Len(snapshots) :
                    /\ out.timeline.traces[2 * i - 1].color =
                           TierOf(status_colors, Shown(snapshots[i], "status", "established"),
                                  "#3b82f6")
                    /\ out.timeline.traces[2 * i].size =
                           TierOf(freq_sizes, Shown(snapshots[i], "frequency", "medium"), 30)
                    /\ out.freq_chart.traces[1].y[i] =
                           TierOf(freq_map, Shown(snapshots[i], "frequency", "medium"), 2)
              /\ "snapshots" \in DOMAIN rx.data =>
                    LET pie == out.status_pie.traces[1]
                    IN  /\ \A j \in 1..Len(pie.labels) :
                              pie.marker_colors[j] = TierOf(status_colors, pie.labels[j], "#888")
                        /\ \A j, k \in 1..Len(pie.labels) :
                              str_lower(pie.labels[j]) = str_lower(pie.labels[k]) => j = k
              /\ ("semantic_shifts" \in DOMAIN rx.data /\ Len(shifts) > 0) =>
                    \A i \in 1..Len(shifts) :
                        out.sankey.traces[1].color[i] =
                            TierOf(sankey_shift_colors, Shown(shifts[i], "shift_type", "unknown"),
                                   "rgba(128,128,128,0.5)")

\* C15: whatever requests and key settings came before (hits, misses, blank
\* terms, calls that brought a record or none), DEMO_DATA is the dict literal
\* of the source, and the record a finished request rendered is the stored
\* entry or the parsed object as it was handed to the renderers.
C15_RecordsNeverMutated ==
    /\ store = DEMO_DATA
    /\ (program = "app" /\ req.pc = "done" /\ req.data # EmptyObject) =>
           IF req.calls = 0
           THEN \E k \in DOMAIN DEMO_DATA : req.data = DEMO_DATA[k]
           ELSE \E outcome \in ApiOutcomes :
                    /\ outcome.kind = "reply"
                    /\ BraceMatches(outcome.text)
                    /\ json_dumps(req.data, -1) = BraceMatchGroup(outcome.text)

C15_Witness ==
    /\ req.pc = "done"
    /\ req.term = "cloud"
    /\ tracker.is_set
    /\ req.data = DEMO_cloud
    /\ store.cloud = DEMO_cloud

\* C16: no step of the tracker module takes an entry out of
\* evolution_database, and an entry changes only by the record the call in
\* hand returns for its term; a call of analyze_term_evolution goes to the
\* service, once, also for a term that has an entry, and leaves the entries
\* as they are; what a call returns is what the reply of the service gives
\* for its term and domain.
C16_CacheWriteOnly ==
    /\ [][ (program = "lib" /\ lib.pc \in {"idle", "waiting", "done"}) =>
               /\ DOMAIN lib.evolution_database \subseteq DOMAIN lib'.evolution_database
               /\ \A t \in DOMAIN lib'.evolution_database :
                      \/ /\ t \in DOMAIN lib.evolution_database
                         /\ lib'.evolution_database[t] = lib.evolution_database[t]
                      \/ /\ t = lib.term
                         /\ lib'.ret = DictValue(lib'.evolution_database[t]) ]_vars
    /\ [][ (program = "lib" /\ lib.pc = "idle" /\ lib' # lib) =>
               /\ lib'.pc = "waiting"
               /\ lib'.calls = 1
               /\ lib'.evolution_database = lib.evolution_database ]_vars
    /\ [] ( (program = "lib" /\ lib.pc = "done") =>
               \E outcome \in ApiOutcomes :
                   lib.ret = analyze_term_evolution_results[outcome, lib.term, lib.domain] )

C16_Witness ==
    /\ lib.pc = "waiting"
    /\ lib.term \in DOMAIN lib.evolution_database
    /\ lib.calls = 1

NonEmptyString(value) == value # PyNone /\ Len(value) > 0

\* C19: the constructor has raised ValueError exactly when neither the
\* api_key argument nor MISTRAL_API_KEY is a non-empty string, and then there
\* is no client, no key and no evolution_database entry; otherwise the
\* tracker holds the argument when it is a non-empty string, the variable
\* when not, and its client was created with that key.
C19_ConstructorKey ==
    program = "lib" =>
        /\ lib.pc = "raised" =>
               /\ lib.error = "ValueError"
               /\ ~NonEmptyString(lib.arg) /\ ~NonEmptyString(lib.environ)
               /\ lib.client = PyNone /\ lib.api_key = PyNone
               /\ lib.evolution_database = EmptyObject
        /\ (lib.pc = "idle" /\ (lib.arg # PyNone \/ lib.environ # PyNone)) =>
               /\ NonEmptyString(lib.arg) \/ NonEmptyString(lib.environ)
               /\ lib.api_key = IF NonEmptyString(lib.arg) THEN lib.arg ELSE lib.environ
               /\ lib.client = lib.api_key
               /\ lib.error = ""
        /\ lib.pc \in {"idle", "waiting", "done"} => NonEmptyString(lib.api_key)

C19_Witness ==
    /\ lib.pc = "idle"
    /\ lib.arg = "sk-arg"
    /\ lib.environ = "sk-env"
    /\ lib.api_key = "sk-arg"

\* what a request returns when no other operation runs beside it: the
\* tracker is the None of the module's start
ResultAlone(term) ==
    IF BlankTerm(term) THEN ValidationResult
    ELSE IF StoreHas(term) THEN RenderResult(StoreEntry(term))
    ELSE NoDataResult(term)

\* C17 as the specification states it: no operation writes a variable that
\* another operation reads, so the tracker and the store that analyze_term
\* reads keep the values of the module's start, and a finished request
\* carries the result it has when it runs alone.
C17_NoSharedState_AsClaimed ==
    program = "app" =>
        /\ tracker = NoTracker
        /\ store = DEMO_DATA
        /\ req.pc = "done" => req.result = ResultAlone(req.term)

\* C17: the global tracker is the one variable an operation writes and another
\* reads: only initialize_tracker changes it, and no step of it touches a
\* request; no step of analyze_term changes the tracker, the status text or
\* the store; a request for a blank term or a store term makes no call and
\* has the same result whatever initialize_tracker calls ran beside it.
C17_TrackerOnlySharedState ==
    /\ [][ (program = "app" /\ req' # req) =>
               (tracker' = tracker /\ ui' = ui /\ store' = store) ]_vars
    /\ [][ (program = "app" /\ (tracker' # tracker \/ ui' # ui)) => req' = req ]_vars
    /\ [] ( (program = "app" /\ req.pc = "done"
                 /\ (AllWhitespace(req.term) \/ InStore(req.term))) =>
               /\ req.calls = 0
               /\ ~req.invoked
               /\ req.result = ResultAlone(req.term) )

C17_Witness ==
    /\ program = "app"
    /\ req.pc = "done"
    /\ InStore(req.term)
    /\ req.result = ResultAlone(req.term)
    /\ tracker.is_set /\ tracker.client
    /\ ui # InitialStatus

InFlight == program = "app" /\ req.pc \in {"check_tracker", "check_client", "call", "waiting"}

\* every request comes to its end when the service answers each call, and
\* from the wait for the service nothing but the answer moves it on
C18_Terminates ==
    /\ InFlight ~> (req.pc = "done")
    /\ [][ (program = "app" /\ req.pc = "waiting" /\ req' # req) =>
               (req'.pc = "done" /\ req'.calls = req.calls) ]_vars

\* C18: a request under way comes, when the service answers each call made,
\* to its end with one result of six parts returned to the caller.
C18_ReturnsSixParts ==
    InFlight ~> (req.pc = "done" /\ req.result.status = "returned")

\* C20: while the status box shows the message of a Set Key with an empty or
\* whitespace-only key, a request for a non-blank term absent from the store
\* has made no call of the service, and its result is the "no data" result.
C20_DemoDataOnlyAfterEmptyKey ==
    ( /\ program = "app"
      /\ ui = "# No API key provided. Using demo data only. Available terms: buddha, computer, virus, cloud, mouse"
      /\ req.pc # "idle"
      /\ ~AllWhitespace(req.term)
      /\ ~InStore(req.term) ) =>
        /\ req.calls = 0
        /\ ~req.invoked
        /\ req.pc = "done" => req.result = NoDataResult(req.term)

KeySetStatus ==
    ui = "# API key set! You can now analyze custom terms. Demo data available for: buddha, computer, virus, cloud, mouse"

MissDone == req.pc = "done" /\ ~AllWhitespace(req.term) /\ ~InStore(req.term)

FirstChars(text, n) == IF Len(text) <= n THEN text ELSE SubSeq(text, 1, n)

\* the before- and after-meaning a shift shows in the flow diagram
NodeText(shift, key) ==
    FirstChars(IF key \in DOMAIN shift THEN shift[key] ELSE "Unknown", 30)

FlowDrawn ==
    /\ Len(rx.results) = 1
    /\ ~rx.results[1].raised
    /\ Len(rx.data.semantic_shifts) > 0

\* C22: in a flow diagram drawn from a record with shifts, no label occurs
\* twice; each label is the first 30 characters of the before- or
\* after-meaning of some shift, "Unknown" for an absent one; there is one link
\* per shift, in shift order, and the source and target of the link of a shift
\* are places of the label list that hold the first 30 characters of its
\* before- and after-meaning.
C22_FlowNodes ==
    FlowDrawn =>
        LET shifts == rx.data.semantic_shifts
            flow == rx.results[1].fig.traces[1]
            places == 0..(Len(flow.label) - 1)
        IN  /\ \A i, j \in 1..Len(flow.label) : flow.label[i] = flow.label[j] => i = j
            /\ \A i \in 1..Len(flow.label) :
                   \E k \in 1..Len(shifts) :
                       \/ flow.label[i] = NodeText(shifts[k], "meaning_before")
                       \/ flow.label[i] = NodeText(shifts[k], "meaning_after")
            /\ Len(flow.source) = Len(shifts)
            /\ Len(flow.target) = Len(shifts)
            /\ Len(flow.value) = Len(shifts)
            /\ \A k \in 1..Len(shifts) :
                   /\ flow.source[k] \in places
                   /\ flow.target[k] \in places
                   /\ flow.label[flow.source[k] + 1] = NodeText(shifts[k], "meaning_before")
                   /\ flow.label[flow.target[k] + 1] = NodeText(shifts[k], "meaning_after")

C22_Witness ==
    /\ FlowDrawn
    /\ Len(rx.data.semantic_shifts) = 2
    /\ rx.results[1].fig.traces[1].label = << "a discrete amount of an energy", "Unknown" >>
    /\ rx.results[1].fig.traces[1].source = << 0, 0 >>
    /\ rx.results[1].fig.traces[1].target = << 1, 0 >>
    /\ rx.data.semantic_shifts[2].meaning_after = "a discrete amount of an energy, in physics"

\* the years of a snapshot, the defaults for absent ones
StartYear(snap) == IF "year_start" \in DOMAIN snap THEN snap.year_start ELSE 1900

EndYear(snap) == IF "year_end" \in DOMAIN snap THEN snap.year_end ELSE 2000

TimelineDrawn ==
    /\ Len(rx.results) = 1
    /\ ~rx.results[1].raised
    /\ "snapshots" \in DOMAIN rx.data

\* C23: a timeline has two traces per snapshot, then one per shift, in record
\* order; the bar of a snapshot spans from its start year to its end year and
\* its marker stands at the midpoint, twice which is start plus end, for years
\* of either sign and in either order; an absent start year counts as 1900,
\* an absent end year as 2000.
C23_TimelineYears ==
    TimelineDrawn =>
        LET snapshots == rx.data.snapshots
            shifts == rx.data.semantic_shifts
            traces == rx.results[1].fig.traces
        IN  /\ Len(traces) = 2 * Len(snapshots) + Len(shifts)
            /\ \A i \in 1..Len(snapshots) :
                   LET bar == traces[2 * i - 1]
                       marker == traces[2 * i]
                   IN  /\ bar.mode = "lines"
                       /\ bar.x_twice = << 2 * StartYear(snapshots[i]),
                                           2 * EndYear(snapshots[i]) >>
                       /\ marker.mode = "markers+text"
                       /\ marker.x_twice = << StartYear(snapshots[i]) + EndYear(snapshots[i]) >>
                       /\ marker.name = snapshots[i].period
            /\ \A k \in 1..Len(shifts) :
                   LET arrow == traces[2 * Len(snapshots) + k]
                   IN  /\ arrow.mode = "lines+markers+text"
                       /\ arrow.name = "Shift: " \o str_lower(shifts[k].shift_type)

C23_Witness ==
    /\ TimelineDrawn
    /\ Len(rx.data.snapshots) = 2
    /\ Len(rx.data.semantic_shifts) = 1
    /\ rx.data.snapshots[1] = [period |-> "then", year_start |-> 2000, year_end |-> -563]
    /\ rx.data.snapshots[2] = [period |-> "undated"]
    /\ rx.results[1].fig.traces[2].x_twice = << 1437 >>
    /\ rx.results[1].fig.traces[3].x_twice = << 3800, 4000 >>
    /\ Len(rx.results[1].fig.traces) = 5

\* the places of the first "{" and of the last "}" of a text, 0 for none
FirstOpen(text) ==
    IF \E i \in 1..Len(text) : SubSeq(text, i, i) = "{"
    THEN CHOOSE i \in 1..Len(text) :
             /\ SubSeq(text, i, i) = "{"
             /\ \A j \in 1..(i - 1) : SubSeq(text, j, j) # "{"
    ELSE 0

LastClose(text) ==
    IF \E i \in 1..Len(text) : SubSeq(text, i, i) = "}"
    THEN CHOOSE i \in 1..Len(text) :
             /\ SubSeq(text, i, i) = "}"
             /\ \A j \in (i + 1)..Len(text) : SubSeq(text, j, j) # "}"
    ELSE 0

HasCandidate(text) == FirstOpen(text) > 0 /\ LastClose(text) > FirstOpen(text)

Candidate(text) == SubSeq(text, FirstOpen(text), LastClose(text))

Parsed == Len(rx.results) = 1 /\ rx.data.kind = "reply"

\* C24: both producers take from a reply the text from its first "{" to its
\* last "}" and parse that text once: a record comes back exactly when that
\* text is the JSON text of an object, and it is that object (in the tracker
\* module, the record made of it); a reply with no "{" that a "}" follows
\* gives no record.
C24_GreedyBraces ==
    Parsed =>
        LET text == rx.data.text
            got == rx.results[1]
        IN  IF HasCandidate(text) /\ \E d \in ProducerObjects : Candidate(text) \in JsonTexts[d]
            THEN \E d \in ProducerObjects :
                     /\ Candidate(text) \in JsonTexts[d]
                     /\ got.app = DictValue(d)
                     /\ got.lib = DictValue(TermEvolutionRecord(d, "AI", "general"))
            ELSE got.app = NoneValue /\ got.lib = NoneValue

C24_Witness ==
    /\ Parsed
    /\ rx.data.text = "} " \o json_dumps(NoItemsObject, 2) \o " {"
    /\ rx.results[1].app = DictValue(NoItemsObject)
    /\ rx.results[1].lib.found

\* a reply that gives no record: the call raised, or the text from the first
\* "{" to the last "}" is missing or is not the JSON text of an object
FailedReply(outcome) ==
    \/ outcome.kind = "raise"
    \/ ~HasCandidate(outcome.text)
    \/ \A d \in ProducerObjects : Candidate(outcome.text) \notin JsonTexts[d]

\* C25: a tracker starts with an empty evolution_database; a call that
\* succeeds puts the record it returns under the term as the caller wrote it
\* and leaves the other entries alone; a call that fails (the service raised,
\* no brace match, unparsable reply) returns the not-found value and leaves
\* evolution_database as it was; no other step changes it. So the keys are
\* the terms that have succeeded at least once, each with the record of its
\* latest success.
C25_DatabaseOfSuccesses ==
    /\ [][ (program = "lib" /\ lib.pc \in {"new", "raised"}) =>
               lib'.evolution_database = EmptyObject ]_vars
    /\ [][ (program = "lib" /\ lib.pc \in {"idle", "done"}) =>
               lib'.evolution_database = lib.evolution_database ]_vars
    /\ [][ (program = "lib" /\ lib.pc = "waiting" /\ lib' # lib) =>
               IF FailedReply(lib'.reply)
               THEN /\ lib'.ret = NoneValue
                    /\ lib'.evolution_database = lib.evolution_database
               ELSE /\ lib'.ret.found
                    /\ DOMAIN lib'.evolution_database =
                           DOMAIN lib.evolution_database \cup {lib.term}
                    /\ lib'.evolution_database[lib.term] = lib'.ret.data
                    /\ \A t \in DOMAIN lib.evolution_database \ {lib.term} :
                           lib'.evolution_database[t] = lib.evolution_database[t] ]_vars

C25_Witness ==
    /\ program = "lib"
    /\ lib.pc = "done"
    /\ lib.term = "ai"
    /\ lib.reply = ApiReply("{not json}")
    /\ ~lib.ret.found
    /\ DOMAIN lib.evolution_database = {"AI", "ai"}
    /\ lib.evolution_database["AI"] # lib.evolution_database["ai"]

ReadsTracker == program = "app" /\ req.pc \in {"check_tracker", "check_client", "call"}

\* once set, the global tracker stays set, whatever Set Key does; a request
\* that is past the test of the tracker finds a tracker at each later read of
\* the global, so no step that reads it raises; a step that reads it and ends
\* the request ends it with the "no data" result and no call; and a tracker
\* with no client, put there after the request tested the client, is invoked
\* and returns not-found without a call.
TrackerNeverCleared ==
    /\ [][ (program = "app" /\ tracker.is_set) => tracker'.is_set ]_vars
    /\ [] ( (program = "app" /\ req.pc \in {"check_client", "call"}) => tracker.is_set )
    /\ [][ (ReadsTracker /\ req' # req) =>
               /\ req'.result.status # "raised"
               /\ req'.pc = "done" =>
                      (req'.calls = 0 /\ req'.result = NoDataResult(req.term)) ]_vars
    /\ [][ (program = "app" /\ req.pc = "call" /\ ~tracker.client /\ req' # req) =>
               /\ req'.pc = "done"
               /\ req'.invoked
               /\ req'.self = tracker
               /\ req'.calls = 0
               /\ req'.data = EmptyObject ]_vars

\* C26: a request finds a tracker at each read of the global that follows the
\* test of it, and a request during which Set Key put another tracker in the
\* global has returned, not raised.
C26_InterleavedNeverRaises ==
    program = "app" =>
        /\ req.pc \in {"check_client", "call"} => tracker.is_set
        /\ (req.pc = "done" /\ req.invoked /\ req.self # tracker) =>
               req.result.status = "returned"

\* the object a reply holds between its first "{" and its last "}"
ReplyHolds(outcome, d) ==
    /\ outcome.kind = "reply"
    /\ HasCandidate(outcome.text)
    /\ Candidate(outcome.text) \in JsonTexts[d]

\* a record was found for the request: its term is in the store, or the
\* producer returned a non-empty object
RecordFound ==
    /\ ~AllWhitespace(req.term)
    /\ \/ InStore(req.term)
       \/ \E d \in ProducerObjects \ {EmptyObject} : ReplyHolds(req.reply, d)

\* a request that returned has a non-empty serialized record exactly when a
\* record was found, and then it is the JSON text of that record
SerializedWhenReturned ==
    (program = "app" /\ req.pc = "done" /\ req.result.status = "returned") =>
        /\ (req.result.json_out # "") = RecordFound
        /\ RecordFound => req.result.json_out = json_dumps(req.data, 2)

\* C27: every finished request has returned its six outputs, and its
\* serialized record is non-empty exactly when a record was found (a store
\* hit, or a non-empty object returned by the producer): it is the empty
\* string after a blank term and when there is no data.
C27_SixOutputs ==
    (program = "app" /\ req.pc = "done") =>
        /\ req.result.status = "returned"
        /\ DOMAIN req.result =
               {"status", "report", "timeline", "status_pie", "freq_chart", "sankey", "json_out"}
        /\ (req.result.json_out # "") = RecordFound

\* C28: a request whose reply holds the empty object ends, after its one
\* call, with the "no data" result and no record, as a request does whose
\* reply failed (the call raised, no brace match, unparsable text).
C28_EmptyObjectIsMiss ==
    (program = "app" /\ req.pc = "done" /\ req.reply # NoReply
         /\ (ReplyHolds(req.reply, EmptyObject) \/ FailedReply(req.reply))) =>
        /\ req.result = NoDataResult(req.term)
        /\ req.data = EmptyObject
        /\ req.calls = 1

C28_Witness ==
    /\ program = "app"
    /\ req.pc = "done"
    /\ req.reply = ApiReply("{}")
    /\ ReplyHolds(req.reply, EmptyObject)
    /\ req.result = NoDataResult(req.term)
    /\ req.result.json_out = ""

\* the records of the terms whose reply held an object, in the order of the
\* terms
RECURSIVE SuccessfulRecords(_, _, _)
SuccessfulRecords(terms, replies, domain) ==
    IF Len(terms) = 0 THEN << >>
    ELSE LET rest == SuccessfulRecords(Tail(terms), Tail(replies), domain)
         IN  IF FailedReply(Head(replies)) THEN rest
             ELSE << TermEvolutionRecord(
                         CHOOSE d \in ProducerObjects : ReplyHolds(Head(replies), d),
                         Head(terms), domain) >> \o rest

BatchDone == program = "lib" /\ lib.pc = "batch_done"

\* C29: when analyze_multiple_terms returns, analyze_term_evolution was called
\* once per term, in input order, whatever terms failed; the list returned
\* holds the records of the terms that succeeded, in input order, and nothing
\* else: no not-found value, and no more entries than terms.
C29_BatchResults ==
    BatchDone =>
        /\ lib.batch.called = lib.batch.terms
        /\ Len(lib.batch.replies) = Len(lib.batch.terms)
        /\ lib.calls = Len(lib.batch.terms)
        /\ Len(lib.batch.results) <= Len(lib.batch.terms)
        /\ \A i \in 1..Len(lib.batch.results) : lib.batch.results[i].found
        /\ [i \in 1..Len(lib.batch.results) |-> lib.batch.results[i].data]
               = SuccessfulRecords(lib.batch.terms, lib.batch.replies, lib.domain)

C29_Witness ==
    /\ BatchDone
    /\ lib.batch.terms = << "AI", "ai" >>
    /\ lib.batch.replies = << ApiRaise, ApiReply("{}") >>
    /\ Len(lib.batch.results) = 1
    /\ lib.batch.results[1].data.term = "ai"
    /\ DOMAIN lib.evolution_database = {"ai"}

\* the status a snapshot is counted under
StatusOf(snap) == IF "status" \in DOMAIN snap THEN snap.status ELSE "unknown"

RECURSIVE SumOf(_)
SumOf(numbers) == IF Len(numbers) = 0 THEN 0 ELSE Head(numbers) + SumOf(Tail(numbers))

PieDrawn == Len(rx.results) = 1 /\ "snapshots" \in DOMAIN rx.data

\* C30: the status chart of a record with a snapshots field is a pie, not the
\* "No data" placeholder, also when the field is an empty sequence, and then
\* it has no slices; its labels are the distinct statuses of the snapshots,
\* "unknown" for an absent one, each once; the value of a slice is the number
\* of snapshots of that status; the values add up to the number of snapshots.
C30_StatusSlices ==
    PieDrawn =>
        LET snapshots == rx.data.snapshots
            fig == rx.results[1].fig
            pie == fig.traces[1]
        IN  /\ fig.annotations = << >>
            /\ Len(fig.traces) = 1
            /\ Len(pie.values) = Len(pie.labels)
            /\ \A i, j \in 1..Len(pie.labels) : pie.labels[i] = pie.labels[j] => i = j
            /\ {pie.labels[i] : i \in 1..Len(pie.labels)}
                   = {StatusOf(snapshots[k]) : k \in 1..Len(snapshots)}
            /\ \A i \in 1..Len(pie.labels) :
                   pie.values[i] =
                       Cardinality({k \in 1..Len(snapshots) :
                                        StatusOf(snapshots[k]) = pie.labels[i]})
            /\ SumOf(pie.values) = Len(snapshots)
            /\ Len(snapshots) = 0 => pie.labels = << >>

C30_Witness ==
    /\ PieDrawn
    /\ rx.data.snapshots = << [period |-> "1990s"], [period |-> "1990s", status |-> "unknown"] >>
    /\ rx.results[1].fig.traces[1].labels = << "unknown" >>
    /\ rx.results[1].fig.traces[1].values = << 2 >>

====
